---- MODULE Spec2Model ----
(***************************************************************************)
(* The trading dashboard: the signal engine (src/src/analysis/             *)
(* trading_strategies.py), the indicator functions (src/src/analysis/      *)
(* technical_analysis.py) and the dashboard callbacks update_graph and     *)
(* update_watchlist (src/src/dashboard/callbacks.py) with the watchlist    *)
(* file behind them (src/src/utils.py), the price download with its cache  *)
(* (src/src/data/market_data.py) and the brokerage trade history with its  *)
(* cache (src/src/trading/schwab_api.py).                                  *)
(*                                                                         *)
(* The analysis functions are operations on one table (a pandas DataFrame) *)
(* that each call extends in place and hands back.  A table is             *)
(* [rows, cols]: rows is the length of the index, cols maps a column name  *)
(* to a Series [dtype, values].  Python positions 0..n-1 are the sequence  *)
(* positions 1..n here, so "index t" of the source is position t+1.        *)
(*                                                                         *)
(* A float64 cell is <<>> (NaN), <<v>> (the integer v), <<n, d>> with      *)
(* d > 1 (the fraction n/d in lowest terms) or <<1, 0>>, <<-1, 0>> (the    *)
(* infinities); float arithmetic is carried out exactly on these, so       *)
(* rounding in the last binary digits is not modelled.  A bool cell is     *)
(* TRUE/FALSE; an int64 cell is an integer.                                *)
(***************************************************************************)
EXTENDS Integers, Sequences, FiniteSets, TLC

VARIABLES
    df,         \* the table the caller holds and passes to the analysis functions
    call,       \* the last call: function, arguments after df, exception raised
    combined,   \* how many times combine_signals has run on df
    calls,      \* how many analysis calls have been made on df
    env,        \* what the callbacks find: the API key, the provider's answer
    ret,        \* what the last callback returned
    watchlist,  \* the lines of watchlist.txt, or NoFile
    recent,     \* the last two update_watchlist calls and the files they found
    market,     \* cache/<symbol>.csv and the last get_daily_data call
    broker,     \* schwab_cache/trade_history.json and the last brokerage call
    clicks      \* the update_watchlist callbacks running side by side, in order of arrival

\* The state of the dashboard outside the analysis functions.
dashboard == <<env, ret, watchlist, recent, market, broker, clicks>>

vars ==
    <<df, call, combined, calls, env, ret, watchlist, recent, market, broker,
      clicks>>

\* ------------------------------------------------------------------ bounds
\* Longest indicator table drawn by Init (a cross needs two rows).
MaxRows == 2
\* Longest signal table drawn by InitCombine.
MaxSignalRows == 1
\* Most strategies whose signal columns a table drawn by InitCombine holds.
MaxStrategies == 2
\* Most combine_signals calls on one table (the counts double per call).
MaxCalls == 2
\* Most indicator and strategy calls on one table (two SMA columns and the
\* crossover strategy make three).
MaxEngineCalls == 3
\* Longest table of closing prices drawn by InitEngine.
MaxPriceRows == 3
\* Longest table of daily bars drawn by InitEngine.
MaxBarRows == 1
\* Longest table of daily bars a price provider answers update_graph with.
MaxGraphRows == 2
\* Most lines of the watchlist.txt drawn by InitWatchlist.
MaxLines == 2
\* Most symbols update_watchlist is let to store in watchlist.txt.
MaxSymbols == 3
\* The first closing price of the tables drawn by InitEngine.
StartPrice == 7
\* The grid float cells are rounded to once exact results no longer fit.
Grid == 1000

\* ------------------------------------------------------- pandas primitives
NaN == <<>>

F(v) == <<v>>

IsNaN(c) == c = NaN

\* Numerator and denominator of a cell that is not NaN.
Num(c) == c[1]

Den(c) == IF Len(c) = 2 THEN c[2] ELSE 1

\* ------------------------------------------------------ float arithmetic
\* float64 carries about sixteen significant digits.  The cells here are
\* exact while numerator and denominator stay within Limit; an operation
\* whose intermediate products would leave it first rounds its operands
\* down to multiples of 1/Grid.
Limit == Grid * Grid * Grid

Abs(n) == IF n < 0 THEN 0 - n ELSE n

Sign(n) == IF n < 0 THEN 0 - 1 ELSE IF n > 0 THEN 1 ELSE 0

RECURSIVE GCD(_, _)
GCD(a, b) == IF b = 0 THEN a ELSE GCD(b, a % b)

\* The cell for n/d: x/0 is an infinity, 0/0 is NaN.
Q(n, d) ==
    IF d = 0
    THEN IF n = 0 THEN NaN ELSE <<Sign(n), 0>>
    ELSE LET g == GCD(Abs(n), Abs(d))
             m == (Sign(d) * n) \div g
             e == Abs(d) \div g
         IN  IF e = 1 THEN <<m>> ELSE <<m, e>>

\* x * y stays within Limit.
Fits(x, y) == x = 0 \/ Abs(y) <= Limit \div Abs(x)

\* The cell rounded down to a multiple of 1/Grid (cells on the grid and the
\* infinities are left alone).
Coarse(c) ==
    IF Den(c) <= Grid THEN c
    ELSE LET q == Num(c) \div Den(c)
             r == Num(c) % Den(c)
             s == 1 + Den(c) \div (Limit \div Grid)
         IN  Q(q * Grid + ((r \div s) * Grid) \div (Den(c) \div s), Grid)

\* The order of two cells that are not NaN; the infinities are the ends.
Below(a, b) ==
    LET Exact(x, y) ==
            IF Den(x) = 0 /\ Den(y) = 0
            THEN Num(x) < Num(y)
            ELSE Num(x) * Den(y) < Num(y) * Den(x)
    IN  IF Fits(Num(a), Den(b)) /\ Fits(Num(b), Den(a))
        THEN Exact(a, b)
        ELSE Exact(Coarse(a), Coarse(b))

\* Variant: equal cells compare as less.
LtOrEqual(a, b) == ~IsNaN(a) /\ ~IsNaN(b) /\ ~Below(b, a)

\* A comparison of two float cells: False as soon as one side is NaN.
Lt(a, b) == ~IsNaN(a) /\ ~IsNaN(b) /\ Below(a, b)

Gt(a, b) == Lt(b, a)

Le(a, b) == ~IsNaN(a) /\ ~IsNaN(b) /\ ~Below(b, a)

Ge(a, b) == Le(b, a)

Neg(a) == IF IsNaN(a) THEN NaN ELSE Q(0 - Num(a), Den(a))

\* a + b; inf + -inf is NaN.
\* Two finite cells are added over their least common denominator.
Plus(a, b) ==
    LET Exact(x, y) ==
            LET g == GCD(Den(x), Den(y))
            IN  Q(Num(x) * (Den(y) \div g) + Num(y) * (Den(x) \div g),
                  (Den(x) \div g) * Den(y))
        ExactFits ==
            LET g == GCD(Den(a), Den(b))
            IN  /\ Fits(Num(a), Den(b) \div g)
                /\ Fits(Num(b), Den(a) \div g)
                /\ Fits(Den(a) \div g, Den(b))
    IN  IF IsNaN(a) \/ IsNaN(b) THEN NaN
        ELSE IF Den(a) = 0 /\ Den(b) = 0
        THEN IF Num(a) = Num(b) THEN a ELSE NaN
        ELSE IF Den(a) = 0 THEN a
        ELSE IF Den(b) = 0 THEN b
        ELSE IF ExactFits THEN Exact(a, b)
        ELSE Exact(Coarse(a), Coarse(b))

Minus(a, b) == Plus(a, Neg(b))

\* a * b; 0 * inf is NaN.
\* Common factors are cancelled before the multiplication.
Times(a, b) ==
    LET Exact(x, y) ==
            LET g == GCD(Abs(Num(x)), Den(y))
                h == GCD(Abs(Num(y)), Den(x))
            IN  IF g = 0 \/ h = 0
                THEN Q(Num(x) * Num(y), Den(x) * Den(y))
                ELSE Q((Num(x) \div g) * (Num(y) \div h),
                       (Den(x) \div h) * (Den(y) \div g))
        ExactFits ==
            LET g == GCD(Abs(Num(a)), Den(b))
                h == GCD(Abs(Num(b)), Den(a))
            IN  \/ g = 0
                \/ h = 0
                \/ /\ Fits(Num(a) \div g, Num(b) \div h)
                   /\ Fits(Den(a) \div h, Den(b) \div g)
    IN  IF IsNaN(a) \/ IsNaN(b) THEN NaN
        ELSE IF ExactFits THEN Exact(a, b)
        ELSE Exact(Coarse(a), Coarse(b))

\* a / b; x/0 is an infinity, 0/0 and inf/inf are NaN, x/inf is 0.
\* a times 1/b, where 1/0 is inf and 1/inf is 0.
Over(a, b) ==
    LET inverse == IF IsNaN(b) THEN NaN
                   ELSE IF Num(b) = 0 THEN <<1, 0>>
                   ELSE Q(Sign(Num(b)) * Den(b), Abs(Num(b)))
    IN  Times(a, inverse)

FloatSeries(vals) == [dtype |-> "float64", values |-> vals]

BoolSeries(vals) == [dtype |-> "bool", values |-> vals]

IntSeries(vals) == [dtype |-> "int64", values |-> vals]

\* Variant: shift(-1), the value of the next row, NaN in the last row.
ShiftBack(s) ==
    FloatSeries([t \in 1..Len(s.values) |->
                    IF t = Len(s.values) THEN NaN ELSE s.values[t + 1]])

\* Series.shift(1): the value of the previous row, NaN in the first row.
Shift(s) ==
    FloatSeries([t \in 1..Len(s.values) |->
                    IF t = 1 THEN NaN ELSE s.values[t - 1]])

\* Elementwise comparison of two Series (aligned on the same index).
SeriesLt(a, b) ==
    BoolSeries([t \in 1..Len(a.values) |-> Lt(a.values[t], b.values[t])])

SeriesGt(a, b) ==
    BoolSeries([t \in 1..Len(a.values) |-> Gt(a.values[t], b.values[t])])

\* Elementwise comparison of a Series with a scalar.
ScalarLt(a, x) ==
    BoolSeries([t \in 1..Len(a.values) |-> Lt(a.values[t], F(x))])

\* Variant: the comparison the other way round.
ScalarGtReversed(a, x) ==
    BoolSeries([t \in 1..Len(a.values) |-> Lt(a.values[t], F(x))])

ScalarGt(a, x) ==
    BoolSeries([t \in 1..Len(a.values) |-> Gt(a.values[t], F(x))])

ScalarLe(a, x) ==
    BoolSeries([t \in 1..Len(a.values) |-> Le(a.values[t], F(x))])

ScalarGe(a, x) ==
    BoolSeries([t \in 1..Len(a.values) |-> Ge(a.values[t], F(x))])

\* Variant: | in place of &.
Or(a, b) ==
    BoolSeries([t \in 1..Len(a.values) |-> a.values[t] \/ b.values[t]])

\* The & of two bool Series.
And(a, b) ==
    BoolSeries([t \in 1..Len(a.values) |-> a.values[t] /\ b.values[t]])

\* df[name] = series
SetCol(d, name, s) ==
    [rows |-> d.rows,
     cols |-> [c \in DOMAIN d.cols \cup {name} |->
                  IF c = name THEN s ELSE d.cols[c]]]

Columns(d) == DOMAIN d.cols

HasCols(d, names) == names \subseteq Columns(d)

\* All sequences of length n over the set S.
SeqsOfLen(S, n) == [1..n -> S]

\* A table with n rows whose columns are the names in the sequence names,
\* the i-th one holding the float64 values vals[i].
FloatTable(n, names, vals) ==
    [rows |-> n,
     cols |-> [c \in {names[i] : i \in 1..Len(names)} |->
                  FloatSeries(vals[CHOOSE i \in 1..Len(names) : names[i] = c])]]

\* ------------------------------------------------------------ the inputs
\* f'sma_{window}'
SmaColumn(window) ==
    CASE window = 1 -> "sma_1"
      [] window = 2 -> "sma_2"
      [] window = 3 -> "sma_3"
      [] window = 20 -> "sma_20"
      [] window = 50 -> "sma_50"

\* The default arguments of the strategy functions.
ShortWindowDefault == 20

LongWindowDefault == 50

RsiOverboughtDefault == 70

RsiOversoldDefault == 30

StochOverboughtDefault == 80

StochOversoldDefault == 20

\* The arguments a caller passes after df: <<>> leaves both at their
\* defaults.  sma_crossover_strategy(df, short_window, long_window): the
\* self-test passes 2 and 3.
SmaArgs == {<<>>, <<2, 3>>, <<1, 2>>}

\* rsi_strategy(df, overbought_level, oversold_level); the last pair has
\* the overbought level below the oversold one.
RsiArgs == {<<>>, <<65, 35>>, <<30, 70>>}

\* stochastic_oscillator_strategy(df, overbought_level, oversold_level);
\* the last pair has the overbought level below the oversold one.
StochArgs == {<<>>, <<90, 10>>, <<20, 80>>}

\* The parameters of a call: the arguments passed, else the defaults.
Bind(args, defaults) == IF args = <<>> THEN defaults ELSE args

SmaParams(args) == Bind(args, <<ShortWindowDefault, LongWindowDefault>>)

RsiParams(args) == Bind(args, <<RsiOverboughtDefault, RsiOversoldDefault>>)

StochParams(args) == Bind(args, <<StochOverboughtDefault, StochOversoldDefault>>)

WindowPairs == {SmaParams(a) : a \in SmaArgs}

\* Two numbers and NaN give every order of two cells.
PairValues == {NaN, F(1), F(2)}

RsiValues == {NaN, F(25), F(30), F(35), F(65), F(70), F(75)}

KValues == {NaN, F(10), F(20), F(80), F(90)}

DValues == {NaN, F(5), F(20), F(95)}

\* The dummy RSI column of the module's self-test.
RsiSample ==
    <<F(50), F(40), F(35), F(25), F(28), F(32), F(60), F(75), F(72), F(65)>>

\* A table with the two SMA columns a call of sma_crossover_strategy reads,
\* or with the short one alone (calculate_sma has run for one window).
SmaTable ==
    \E n \in 0..MaxRows, w \in WindowPairs :
        \E a \in SeqsOfLen(PairValues, n) :
            \/ \E b \in SeqsOfLen(PairValues, n) :
                  df = FloatTable(n, <<SmaColumn(w[1]), SmaColumn(w[2])>>, <<a, b>>)
            \/ df = FloatTable(n, <<SmaColumn(w[1])>>, <<a>>)

\* A table with the rsi column: any short one, or the self-test's.
RsiTable ==
    \/ \E n \in 0..MaxRows :
          \E r \in SeqsOfLen(RsiValues, n) : df = FloatTable(n, <<"rsi">>, <<r>>)
    \/ df = FloatTable(Len(RsiSample), <<"rsi">>, <<RsiSample>>)

MacdTable ==
    \E n \in 0..MaxRows :
        \E a \in SeqsOfLen(PairValues, n), b \in SeqsOfLen(PairValues, n) :
            df = FloatTable(n, <<"macd", "macd_signal">>, <<a, b>>)

\* A table with close and the two bands, or without the upper band.  The
\* bands are any two columns: a close may lie below, on, between or above
\* them, and the lower band may be the higher one.
BollingerTable ==
    \E n \in 0..MaxRows :
        \E c \in SeqsOfLen(PairValues, n), l \in SeqsOfLen({NaN, F(1), F(3)}, n) :
            \/ \E u \in SeqsOfLen({NaN, F(1), F(3)}, n) :
                  df = FloatTable(n, <<"close", "upper_band", "lower_band">>,
                                  <<c, u, l>>)
            \/ df = FloatTable(n, <<"close", "lower_band">>, <<c, l>>)

StochTable ==
    \E n \in 0..MaxRows :
        \E k \in SeqsOfLen(KValues, n), d \in SeqsOfLen(DValues, n) :
            df = FloatTable(n, <<"%K", "%D">>, <<k, d>>)

NoCall == [fn |-> "none", args |-> <<>>, raised |-> "none"]

\* No callback has run: no API key, no prices, nothing returned, no
\* watchlist.txt.
NoReturn == [out |-> "none", children |-> <<>>, feedback |-> <<>>]

NoFile == [exists |-> FALSE, lines |-> <<>>]

Idle ==
    /\ env = [api_key |-> "", data |-> [rows |-> 0, cols |-> <<>>]]
    /\ ret = NoReturn
    /\ watchlist = NoFile
    /\ recent = <<>>
    /\ market = [cache |-> NoFile, last |-> NoCall]
    /\ broker = [cache |-> NoFile, last |-> NoCall]
    /\ clicks = <<>>

\* The table a caller hands to the signal engine: the indicator columns of
\* one strategy, computed beforehand.
Init ==
    /\ \/ SmaTable
       \/ RsiTable
       \/ MacdTable
       \/ BollingerTable
       \/ StochTable
    /\ call = NoCall
    /\ combined = 0
    /\ calls = 0
    /\ Idle

\* ------------------------------------------------------------ strategies
Returned(fn, args) == [fn |-> fn, args |-> args, raised |-> "none"]

KeyError(fn, args) == [fn |-> fn, args |-> args, raised |-> "KeyError"]

\* The body of sma_crossover_strategy on a table that has both SMA columns.
SmaCrossover(d, short_window, long_window) ==
    LET d1 == SetCol(d, "short_sma", d.cols[SmaColumn(short_window)])
        d2 == SetCol(d1, "long_sma", d1.cols[SmaColumn(long_window)])
        d3 == SetCol(d2, "buy_signal",
                     And(SeriesLt(Shift(d2.cols["short_sma"]),
                                  Shift(d2.cols["long_sma"])),
                         SeriesGt(d2.cols["short_sma"], d2.cols["long_sma"])))
    IN  SetCol(d3, "sell_signal",
               And(SeriesGt(Shift(d3.cols["short_sma"]),
                            Shift(d3.cols["long_sma"])),
                   SeriesLt(d3.cols["short_sma"], d3.cols["long_sma"])))

sma_crossover_strategy ==
    /\ call.raised = "none"
    /\ calls < MaxEngineCalls
    /\ calls' = calls + 1
    /\ UNCHANGED <<combined, dashboard>>
    /\ \E args \in SmaArgs :
          LET w == SmaParams(args)
          IN  IF ~HasCols(df, {SmaColumn(w[1])})
              THEN /\ df' = df
                   /\ call' = KeyError("sma_crossover_strategy", args)
              ELSE IF ~HasCols(df, {SmaColumn(w[2])})
              THEN /\ df' = SetCol(df, "short_sma", df.cols[SmaColumn(w[1])])
                   /\ call' = KeyError("sma_crossover_strategy", args)
              ELSE /\ df' = SmaCrossover(df, w[1], w[2])
                   /\ call' = Returned("sma_crossover_strategy", args)

\* Variant: the levels tested on the current value alone.
RsiStrategyNoCross(d, overbought_level, oversold_level) ==
    LET d1 == SetCol(d, "rsi_buy_signal",
                     ScalarLe(d.cols["rsi"], oversold_level))
    IN  SetCol(d1, "rsi_sell_signal",
               ScalarGe(d1.cols["rsi"], overbought_level))

\* Variant: the current value compared strictly as well.
RsiStrategyStrict(d, overbought_level, oversold_level) ==
    LET d1 == SetCol(d, "rsi_buy_signal",
                     And(ScalarGt(Shift(d.cols["rsi"]), oversold_level),
                         ScalarLt(d.cols["rsi"], oversold_level)))
    IN  SetCol(d1, "rsi_sell_signal",
               And(ScalarLt(Shift(d1.cols["rsi"]), overbought_level),
                   ScalarGt(d1.cols["rsi"], overbought_level)))

\* The body of rsi_strategy on a table that has the rsi column.
RsiStrategy(d, overbought_level, oversold_level) ==
    LET d1 == SetCol(d, "rsi_buy_signal",
                     And(ScalarGt(Shift(d.cols["rsi"]), oversold_level),
                         ScalarLe(d.cols["rsi"], oversold_level)))
    IN  SetCol(d1, "rsi_sell_signal",
               And(ScalarLt(Shift(d1.cols["rsi"]), overbought_level),
                   ScalarGe(d1.cols["rsi"], overbought_level)))

rsi_strategy ==
    /\ call.raised = "none"
    /\ calls < MaxEngineCalls
    /\ calls' = calls + 1
    /\ UNCHANGED <<combined, dashboard>>
    /\ \E args \in RsiArgs :
          LET lv == RsiParams(args)
          IN  IF ~HasCols(df, {"rsi"})
              THEN /\ df' = df
                   /\ call' = KeyError("rsi_strategy", args)
              ELSE /\ df' = RsiStrategy(df, lv[1], lv[2])
                   /\ call' = Returned("rsi_strategy", args)

\* The body of macd_crossover_strategy on a table that has both columns.
MacdCrossover(d) ==
    LET d1 == SetCol(d, "macd_buy_signal",
                     And(SeriesLt(Shift(d.cols["macd"]),
                                  Shift(d.cols["macd_signal"])),
                         SeriesGt(d.cols["macd"], d.cols["macd_signal"])))
    IN  SetCol(d1, "macd_sell_signal",
               And(SeriesGt(Shift(d1.cols["macd"]),
                            Shift(d1.cols["macd_signal"])),
                   SeriesLt(d1.cols["macd"], d1.cols["macd_signal"])))

macd_crossover_strategy ==
    /\ call.raised = "none"
    /\ calls < MaxEngineCalls
    /\ calls' = calls + 1
    /\ UNCHANGED <<combined, dashboard>>
    /\ IF ~HasCols(df, {"macd", "macd_signal"})
       THEN /\ df' = df
            /\ call' = KeyError("macd_crossover_strategy", <<>>)
       ELSE /\ df' = MacdCrossover(df)
            /\ call' = Returned("macd_crossover_strategy", <<>>)

\* Variant: a cross below the lower band instead of a state below it.
BollingerBuyCross(d) ==
    SetCol(d, "bb_buy_signal",
           And(SeriesGt(Shift(d.cols["close"]), Shift(d.cols["lower_band"])),
               SeriesLt(d.cols["close"], d.cols["lower_band"])))

\* df['bb_buy_signal'] = (df['close'] < df['lower_band'])
BollingerBuy(d) ==
    SetCol(d, "bb_buy_signal", SeriesLt(d.cols["close"], d.cols["lower_band"]))

\* df['bb_sell_signal'] = (df['close'] > df['upper_band'])
BollingerSell(d) ==
    SetCol(d, "bb_sell_signal", SeriesGt(d.cols["close"], d.cols["upper_band"]))

bollinger_bands_strategy ==
    /\ call.raised = "none"
    /\ calls < MaxEngineCalls
    /\ calls' = calls + 1
    /\ UNCHANGED <<combined, dashboard>>
    /\ IF ~HasCols(df, {"close", "lower_band"})
       THEN /\ df' = df
            /\ call' = KeyError("bollinger_bands_strategy", <<>>)
       ELSE IF ~HasCols(df, {"upper_band"})
       THEN /\ df' = BollingerBuy(df)
            /\ call' = KeyError("bollinger_bands_strategy", <<>>)
       ELSE /\ df' = BollingerSell(BollingerBuy(df))
            /\ call' = Returned("bollinger_bands_strategy", <<>>)

\* Variant: the crosses alone, without the oversold/overbought tests.
StochasticOscillatorNoLevels(d, overbought_level, oversold_level) ==
    LET d1 == SetCol(d, "stoch_buy_signal",
                     And(SeriesLt(Shift(d.cols["%K"]), Shift(d.cols["%D"])),
                         SeriesGt(d.cols["%K"], d.cols["%D"])))
    IN  SetCol(d1, "stoch_sell_signal",
               And(SeriesGt(Shift(d1.cols["%K"]), Shift(d1.cols["%D"])),
                   SeriesLt(d1.cols["%K"], d1.cols["%D"])))

\* The body of stochastic_oscillator_strategy on a table with %K and %D.
StochasticOscillator(d, overbought_level, oversold_level) ==
    LET d1 == SetCol(d, "stoch_buy_signal",
                     And(And(SeriesLt(Shift(d.cols["%K"]), Shift(d.cols["%D"])),
                             SeriesGt(d.cols["%K"], d.cols["%D"])),
                         ScalarLt(d.cols["%K"], oversold_level)))
    IN  SetCol(d1, "stoch_sell_signal",
               And(And(SeriesGt(Shift(d1.cols["%K"]), Shift(d1.cols["%D"])),
                       SeriesLt(d1.cols["%K"], d1.cols["%D"])),
                   ScalarGt(d1.cols["%K"], overbought_level)))

stochastic_oscillator_strategy ==
    /\ call.raised = "none"
    /\ calls < MaxEngineCalls
    /\ calls' = calls + 1
    /\ UNCHANGED <<combined, dashboard>>
    /\ \E args \in StochArgs :
          LET lv == StochParams(args)
          IN  IF ~HasCols(df, {"%K", "%D"})
              THEN /\ df' = df
                   /\ call' = KeyError("stochastic_oscillator_strategy", args)
              ELSE /\ df' = StochasticOscillator(df, lv[1], lv[2])
                   /\ call' = Returned("stochastic_oscillator_strategy", args)

Next ==
    \/ sma_crossover_strategy
    \/ rsi_strategy
    \/ macd_crossover_strategy
    \/ bollinger_bands_strategy
    \/ stochastic_oscillator_strategy

\* ------------------------------------------------------- combine_signals
\* A column name as its underscore-separated words; 'x' in col is then the
\* search for the words of x as a run of consecutive words of col.
Words(col) ==
    CASE col = "buy_signal" -> <<"buy", "signal">>
      [] col = "sell_signal" -> <<"sell", "signal">>
      [] col = "rsi_buy_signal" -> <<"rsi", "buy", "signal">>
      [] col = "rsi_sell_signal" -> <<"rsi", "sell", "signal">>
      [] col = "macd_buy_signal" -> <<"macd", "buy", "signal">>
      [] col = "macd_sell_signal" -> <<"macd", "sell", "signal">>
      [] col = "bb_buy_signal" -> <<"bb", "buy", "signal">>
      [] col = "bb_sell_signal" -> <<"bb", "sell", "signal">>
      [] col = "stoch_buy_signal" -> <<"stoch", "buy", "signal">>
      [] col = "stoch_sell_signal" -> <<"stoch", "sell", "signal">>
      [] col = "strong_buy_signal" -> <<"strong", "buy", "signal">>
      [] col = "strong_sell_signal" -> <<"strong", "sell", "signal">>
      [] col = "buy_signal_count" -> <<"buy", "signal", "count">>
      [] col = "sell_signal_count" -> <<"sell", "signal", "count">>
      [] col = "macd_signal" -> <<"macd", "signal">>
      [] col = "macd" -> <<"macd">>

\* needle in col
Contains(col, needle) ==
    \E i \in 1..(Len(Words(col)) - Len(needle) + 1) :
        SubSeq(Words(col), i, i + Len(needle) - 1) = needle

\* One cell as DataFrame.sum adds it: a bool as 0/1, a missing float as 0.
Addend(s, t) ==
    CASE s.dtype = "bool" -> IF s.values[t] THEN 1 ELSE 0
      [] s.dtype = "int64" -> s.values[t]
      [] s.dtype = "float64" -> IF IsNaN(s.values[t]) THEN 0 ELSE s.values[t][1]

RECURSIVE SumCells(_, _, _)
SumCells(d, names, t) ==
    IF names = {} THEN 0
    ELSE LET c == CHOOSE x \in names : TRUE
         IN  Addend(d.cols[c], t) + SumCells(d, names \ {c}, t)

\* df[names].sum(axis=1)
RowSum(d, names) == IntSeries([t \in 1..d.rows |-> SumCells(d, names, t)])

\* df[name] = False
AllFalse(d) == BoolSeries([t \in 1..d.rows |-> FALSE])

\* [col for col in df.columns if 'buy_signal' in col and col != 'strong_buy_signal']
buy_signal_columns(d) ==
    {col \in Columns(d) :
        Contains(col, <<"buy", "signal">>) /\ col # "strong_buy_signal"}

\* [col for col in df.columns if 'sell_signal' in col and col != 'strong_sell_signal']
sell_signal_columns(d) ==
    {col \in Columns(d) :
        Contains(col, <<"sell", "signal">>) /\ col # "strong_sell_signal"}

\* Variant: the other side's count is not looked at.
StrongSignalNoVeto(d, a, b) ==
    BoolSeries([t \in 1..d.rows |-> d.cols[a].values[t] >= 2])

\* Variant: more than two signals are asked for.
StrongSignalThree(d, a, b) ==
    BoolSeries([t \in 1..d.rows |->
                   d.cols[a].values[t] > 2 /\ d.cols[b].values[t] = 0])

\* (df[a] >= 2) & (df[b] == 0)
StrongSignal(d, a, b) ==
    BoolSeries([t \in 1..d.rows |->
                   d.cols[a].values[t] >= 2 /\ d.cols[b].values[t] = 0])

\* The body of combine_signals.
CombineSignals(d) ==
    LET d1 == SetCol(d, "strong_buy_signal", AllFalse(d))
        d2 == SetCol(d1, "strong_sell_signal", AllFalse(d1))
        buys == buy_signal_columns(d2)
        sells == sell_signal_columns(d2)
        d3 == SetCol(d2, "buy_signal_count", RowSum(d2, buys))
        d4 == SetCol(d3, "sell_signal_count", RowSum(d3, sells))
        d5 == SetCol(d4, "strong_buy_signal",
                     StrongSignal(d4, "buy_signal_count", "sell_signal_count"))
    IN  SetCol(d5, "strong_sell_signal",
               StrongSignal(d5, "sell_signal_count", "buy_signal_count"))

combine_signals ==
    /\ call.raised = "none"
    /\ combined < MaxCalls
    /\ df' = CombineSignals(df)
    /\ call' = Returned("combine_signals", <<>>)
    /\ combined' = combined + 1
    /\ UNCHANGED <<calls, dashboard>>

\* The five strategies, in the order of the source.
Strategies == {"sma", "rsi", "macd", "bb", "stoch"}

BuyColumn(s) == IF s = "sma" THEN "buy_signal" ELSE s \o "_buy_signal"

SellColumn(s) == IF s = "sma" THEN "sell_signal" ELSE s \o "_sell_signal"

\* A table that holds the signal columns of the strategies in S, with the
\* values sig[column], and the macd_signal indicator when macd is among them.
SignalTable(n, S, sig) ==
    [rows |-> n,
     cols |-> [c \in DOMAIN sig \cup (IF "macd" \in S THEN {"macd_signal"} ELSE {}) |->
                  IF c = "macd_signal"
                  THEN FloatSeries([t \in 1..n |-> F(1)])
                  ELSE BoolSeries(sig[c])]]

\* The table a caller hands to combine_signals: the signal columns of the
\* strategies that ran, with any values.
InitCombine ==
    /\ \E n \in 0..MaxSignalRows, S \in SUBSET Strategies :
          /\ Cardinality(S) <= MaxStrategies
          /\ \E sig \in [{BuyColumn(s) : s \in S} \cup {SellColumn(s) : s \in S}
                            -> SeqsOfLen(BOOLEAN, n)] :
                df = SignalTable(n, S, sig)
    /\ call = NoCall
    /\ combined = 0
    /\ calls = 0
    /\ Idle

NextCombine == combine_signals

SpecCombine == InitCombine /\ [][NextCombine]_vars

Spec == Init /\ [][Next]_vars

\* ------------------------------------------------- Series arithmetic
\* Series.diff(): the change from the previous row, NaN in the first row.
Diff(s) ==
    FloatSeries([t \in 1..Len(s.values) |->
                    IF t = 1 THEN NaN ELSE Minus(s.values[t], s.values[t - 1])])

\* Series.where(cond, other): the cell where cond is True, else other.
Where(s, cond, other) ==
    FloatSeries([t \in 1..Len(s.values) |->
                    IF cond.values[t] THEN s.values[t] ELSE F(other)])

\* Series op Series for op one of + - * /, row by row on two series of
\* one length.
Cellwise(op, a, b) ==
    FloatSeries([t \in 1..Len(a.values) |->
        CASE op = "+" -> Plus(a.values[t], b.values[t])
          [] op = "-" -> Minus(a.values[t], b.values[t])
          [] op = "*" -> Times(a.values[t], b.values[t])
          [] op = "/" -> Over(a.values[t], b.values[t])])

\* The scalar x as an operand of series a: the same cell in every row.
Broadcast(x, a) == FloatSeries([t \in 1..Len(a.values) |-> F(x)])

\* -series
SeriesNeg(s) == FloatSeries([t \in 1..Len(s.values) |-> Neg(s.values[t])])

\* The sum of the cells v[lo..hi].
RECURSIVE WindowSum(_, _, _)
WindowSum(v, lo, hi) ==
    IF lo > hi THEN F(0) ELSE Plus(v[lo], WindowSum(v, lo + 1, hi))

\* A rolling window ending at position t holds window observations, none
\* of them NaN (min_periods is the window).
FullWindow(v, t, window) ==
    /\ t >= window
    /\ \A i \in (t - window + 1)..t : ~IsNaN(v[i])

\* Variant: min_periods=1, the mean of the rows there are.
RollingMeanPartial(s, window) ==
    FloatSeries([t \in 1..Len(s.values) |->
        LET lo == IF t >= window THEN t - window + 1 ELSE 1
        IN  IF \E i \in lo..t : IsNaN(s.values[i]) THEN NaN
            ELSE Over(WindowSum(s.values, lo, t), F(t - lo + 1))])

\* Variant: the rolling sum, the division by the window left out.
RollingSum(s, window) ==
    FloatSeries([t \in 1..Len(s.values) |->
        IF FullWindow(s.values, t, window)
        THEN WindowSum(s.values, t - window + 1, t)
        ELSE NaN])

\* Series.rolling(window=window).mean()
RollingMean(s, window) ==
    FloatSeries([t \in 1..Len(s.values) |->
        IF FullWindow(s.values, t, window)
        THEN Over(WindowSum(s.values, t - window + 1, t), F(window))
        ELSE NaN])

\* Series.rolling(window=window).min()
RollingMin(s, window) ==
    FloatSeries([t \in 1..Len(s.values) |->
        IF FullWindow(s.values, t, window)
        THEN LET W == {s.values[i] : i \in (t - window + 1)..t}
             IN  CHOOSE x \in W : \A y \in W : ~Below(y, x)
        ELSE NaN])

\* Series.rolling(window=window).max()
RollingMax(s, window) ==
    FloatSeries([t \in 1..Len(s.values) |->
        IF FullWindow(s.values, t, window)
        THEN LET W == {s.values[i] : i \in (t - window + 1)..t}
             IN  CHOOSE x \in W : \A y \in W : ~Below(x, y)
        ELSE NaN])

\* The square root of a cell, down to a multiple of 1/Grid.
Sqrt(c) ==
    IF IsNaN(c) THEN NaN
    ELSE IF Den(c) = 0 THEN IF Num(c) > 0 THEN c ELSE NaN
    ELSE IF Num(c) < 0 THEN NaN
    ELSE LET k == Coarse(c)
             x == ((Num(k) * Grid) \div Den(k)) * Grid
             \* The largest r in lo..hi with r * r <= x.
             RECURSIVE Root(_, _)
             Root(lo, hi) ==
                 IF lo = hi THEN lo
                 ELSE LET mid == (lo + hi + 1) \div 2
                      IN  IF mid <= x \div mid THEN Root(mid, hi)
                          ELSE Root(lo, mid - 1)
         IN  Q(Root(0, x), Grid)

\* Series.rolling(window=window).std(): the sample deviation (ddof=1), NaN
\* for a window of one.
RollingStd(s, window) ==
    FloatSeries([t \in 1..Len(s.values) |->
        IF FullWindow(s.values, t, window)
        THEN LET lo == t - window + 1
                 m == Over(WindowSum(s.values, lo, t), F(window))
                 squares == [i \in 1..Len(s.values) |->
                                Times(Minus(s.values[i], m), Minus(s.values[i], m))]
             IN  Sqrt(Over(WindowSum(squares, lo, t), F(window - 1)))
        ELSE NaN])

\* Variant: the first value is seeded with zero instead of the first close.
RECURSIVE EwmZeroSeedAt(_, _, _)
EwmZeroSeedAt(v, alpha, t) ==
    LET y == IF t = 1 THEN F(0) ELSE EwmZeroSeedAt(v, alpha, t - 1)
    IN  Plus(Times(Minus(F(1), alpha), y), Times(alpha, v[t]))

EwmZeroSeed(s, span) ==
    FloatSeries([t \in 1..Len(s.values) |->
                    EwmZeroSeedAt(s.values, Q(2, span + 1), t)])

\* Series.ewm(span=span, adjust=False).mean(): alpha = 2 / (span + 1),
\* y[0] = x[0], y[t] = (1 - alpha) * y[t-1] + alpha * x[t]; a NaN
\* observation carries the previous value on.
Ewm(s, span) ==
    LET alpha == Q(2, span + 1)
        RECURSIVE At(_)
        At(t) ==
            IF t = 1 THEN s.values[1]
            ELSE LET y == At(t - 1)
                 IN  IF IsNaN(y) THEN s.values[t]
                     ELSE IF IsNaN(s.values[t]) THEN y
                     ELSE Plus(Times(Minus(F(1), alpha), y),
                               Times(alpha, s.values[t]))
    IN  FloatSeries([t \in 1..Len(s.values) |-> At(t)])

\* ------------------------------------------------- indicator functions
\* f'ema_{window}'
EmaColumn(window) ==
    CASE window = 3 -> "ema_3"
      [] window = 20 -> "ema_20"

\* The default arguments of the indicator functions.
RsiWindowDefault == 14

MacdFastDefault == 12

MacdSlowDefault == 26

MacdSignalDefault == 9

BollingerWindowDefault == 20

BollingerStdDevDefault == 2

StochKWindowDefault == 14

StochDWindowDefault == 3

\* How a call ends: the table as the call left it and the exception raised.
Return(d) == [df |-> d, raised |-> "none"]

Raise(d) == [df |-> d, raised |-> "KeyError"]

\* data[f'sma_{window}'] = data['close'].rolling(window=window).mean()
CalculateSma(d, window) ==
    SetCol(d, SmaColumn(window), RollingMean(d.cols["close"], window))

\* Variant: the exponential mean seeded with zero.
CalculateEmaZeroSeed(d, window) ==
    SetCol(d, EmaColumn(window), EwmZeroSeed(d.cols["close"], window))

\* data[f'ema_{window}'] = data['close'].ewm(span=window, adjust=False).mean()
CalculateEma(d, window) ==
    SetCol(d, EmaColumn(window), Ewm(d.cols["close"], window))

\* Variant: the rolling means taken over the rows there are (min_periods=1).
CalculateRsiPartial(d, window) ==
    LET delta == Diff(d.cols["close"])
        gain == RollingMeanPartial(Where(delta, ScalarGt(delta, 0), 0), window)
        loss == RollingMeanPartial(SeriesNeg(Where(delta, ScalarLt(delta, 0), 0)),
                                   window)
        rs == Cellwise("/", gain, loss)
        ratio == Cellwise("/", Broadcast(100, rs),
                          Cellwise("+", Broadcast(1, rs), rs))
    IN  SetCol(d, "rsi", Cellwise("-", Broadcast(100, rs), ratio))

\* Variant: the momentum gain - loss in place of the ratio gain / loss.
CalculateRsiDifference(d, window) ==
    LET delta == Diff(d.cols["close"])
        gain == RollingMean(Where(delta, ScalarGt(delta, 0), 0), window)
        loss == RollingMean(SeriesNeg(Where(delta, ScalarLt(delta, 0), 0)), window)
        rs == Cellwise("-", gain, loss)
        ratio == Cellwise("/", Broadcast(100, rs),
                          Cellwise("+", Broadcast(1, rs), rs))
    IN  SetCol(d, "rsi", Cellwise("-", Broadcast(100, rs), ratio))

\* The body of calculate_rsi on a table that has the close column.
CalculateRsi(d, window) ==
    LET delta == Diff(d.cols["close"])
        gain == RollingMean(Where(delta, ScalarGt(delta, 0), 0), window)
        loss == RollingMean(SeriesNeg(Where(delta, ScalarLt(delta, 0), 0)), window)
        rs == Cellwise("/", gain, loss)
        ratio == Cellwise("/", Broadcast(100, rs),
                          Cellwise("+", Broadcast(1, rs), rs))
    IN  SetCol(d, "rsi", Cellwise("-", Broadcast(100, rs), ratio))

\* The body of calculate_macd on a table that has the close column:
\* After(k) is the table after its k-th assignment.
CalculateMacd(d, fast_period, slow_period, signal_period) ==
    LET Line(k, x) ==
            CASE k = 1 -> SetCol(x, "macd_fast", Ewm(x.cols["close"], fast_period))
              [] k = 2 -> SetCol(x, "macd_slow", Ewm(x.cols["close"], slow_period))
              [] k = 3 -> SetCol(x, "macd",
                                 Cellwise("-", x.cols["macd_fast"],
                                          x.cols["macd_slow"]))
              [] k = 4 -> SetCol(x, "macd_signal",
                                 Ewm(x.cols["macd"], signal_period))
              [] k = 5 -> SetCol(x, "macd_histogram",
                                 Cellwise("-", x.cols["macd"],
                                          x.cols["macd_signal"]))
        RECURSIVE After(_)
        After(k) ==
            IF k = 0 THEN d
            ELSE CHOOSE y \in {Line(k, x) : x \in {After(k - 1)}} : TRUE
    IN  After(5)

\* The body of calculate_bollinger_bands on a table with the close column.
CalculateBollingerBands(d, window, num_std_dev) ==
    LET Width(x) == Cellwise("*", x.cols["std_dev"],
                             Broadcast(num_std_dev, x.cols["std_dev"]))
        Line(k, x) ==
            CASE k = 1 -> SetCol(x, "middle_band",
                                 RollingMean(x.cols["close"], window))
              [] k = 2 -> SetCol(x, "std_dev", RollingStd(x.cols["close"], window))
              [] k = 3 -> SetCol(x, "upper_band",
                                 Cellwise("+", x.cols["middle_band"], Width(x)))
              [] k = 4 -> SetCol(x, "lower_band",
                                 Cellwise("-", x.cols["middle_band"], Width(x)))
        RECURSIVE After(_)
        After(k) ==
            IF k = 0 THEN d
            ELSE CHOOSE y \in {Line(k, x) : x \in {After(k - 1)}} : TRUE
    IN  After(4)

\* data['lowest_low'] = data['low'].rolling(window=k_window).min()
LowestLow(d, k_window) ==
    SetCol(d, "lowest_low", RollingMin(d.cols["low"], k_window))

\* data['highest_high'] = data['high'].rolling(window=k_window).max()
HighestHigh(d, k_window) ==
    SetCol(d, "highest_high", RollingMax(d.cols["high"], k_window))

\* The %K and %D lines of calculate_stochastic_oscillator.
StochasticLines(d, d_window) ==
    LET K(x) ==
            Cellwise("*", Broadcast(100, x.cols["close"]),
                     Cellwise("/",
                              Cellwise("-", x.cols["close"], x.cols["lowest_low"]),
                              Cellwise("-", x.cols["highest_high"],
                                       x.cols["lowest_low"])))
    IN  CHOOSE out \in {SetCol(d1, "%D", RollingMean(d1.cols["%K"], d_window)) :
                            d1 \in {SetCol(x, "%K", K(x)) : x \in {d}}} : TRUE

\* Variant: a table without the close column is handed back as it came.
RunCalculateSmaSilent(d, window) ==
    IF ~HasCols(d, {"close"}) THEN Return(d) ELSE Return(CalculateSma(d, window))

\* calculate_sma(data, window): data['close'] raises KeyError on a table
\* without the column.
RunCalculateSma(d, window) ==
    IF ~HasCols(d, {"close"}) THEN Raise(d) ELSE Return(CalculateSma(d, window))

RunCalculateEma(d, window) ==
    IF ~HasCols(d, {"close"}) THEN Raise(d) ELSE Return(CalculateEma(d, window))

RunCalculateRsi(d, window) ==
    IF ~HasCols(d, {"close"}) THEN Raise(d) ELSE Return(CalculateRsi(d, window))

RunCalculateMacd(d, fast_period, slow_period, signal_period) ==
    IF ~HasCols(d, {"close"}) THEN Raise(d)
    ELSE Return(CalculateMacd(d, fast_period, slow_period, signal_period))

RunCalculateBollingerBands(d, window, num_std_dev) ==
    IF ~HasCols(d, {"close"}) THEN Raise(d)
    ELSE Return(CalculateBollingerBands(d, window, num_std_dev))

\* calculate_stochastic_oscillator reads low, then high, then close, and
\* keeps the columns it has assigned when a later read raises.
RunCalculateStochasticOscillator(d, k_window, d_window) ==
    IF ~HasCols(d, {"low"}) THEN Raise(d)
    ELSE IF ~HasCols(d, {"high"}) THEN Raise(LowestLow(d, k_window))
    ELSE IF ~HasCols(d, {"close"})
    THEN Raise(HighestHigh(LowestLow(d, k_window), k_window))
    ELSE Return(StochasticLines(HighestHigh(LowestLow(d, k_window), k_window),
                                d_window))

\* The arguments a caller passes after data: <<>> leaves them at their
\* defaults.  calculate_sma and calculate_ema have no default window: the
\* self-test passes 3, update_graph 20 and 50.
SmaWindows == {1, 2, 3}

EmaWindows == {20}

\* calculate_rsi(data, window)
RsiWindowArgs == {<<>>, <<2>>}

RsiWindow(args) == Bind(args, <<RsiWindowDefault>>)[1]

StochWindows(args) == Bind(args, <<StochKWindowDefault, StochDWindowDefault>>)

\* The closing prices of the indicator module's self-test.
CloseSample == <<F(100), F(102), F(101), F(103), F(105)>>

\* The day-to-day changes of the closing prices drawn by InitEngine.
PriceSteps == {0 - 3, 0, 1}

\* The closing prices that start at StartPrice and change by steps.
Closes(steps) ==
    LET RECURSIVE StepSum(_)
        StepSum(k) == IF k = 0 THEN 0 ELSE steps[k] + StepSum(k - 1)
    IN  [t \in 1..(Len(steps) + 1) |-> F(StartPrice + StepSum(t - 1))]

BarValues == {F(1), F(2)}

\* pd.DataFrame(): no rows, no columns.
EmptyFrame == [rows |-> 0, cols |-> <<>>]

\* A table of closing prices (all above zero): any short one, or the
\* self-test's.
CloseTable ==
    \/ df = FloatTable(0, <<"close">>, <<<<>>>>)
    \/ \E n \in 1..MaxPriceRows :
          \E steps \in SeqsOfLen(PriceSteps, n - 1) :
              /\ \A t \in 1..n : Below(F(0), Closes(steps)[t])
              /\ df = FloatTable(n, <<"close">>, <<Closes(steps)>>)
    \/ df = FloatTable(Len(CloseSample), <<"close">>, <<CloseSample>>)

\* A table of daily bars (low <= close <= high), whole or without the
\* close column or with the low column alone.
BarTable ==
    \E n \in 0..MaxBarRows :
        \E l \in SeqsOfLen(BarValues, n), h \in SeqsOfLen(BarValues, n),
           c \in SeqsOfLen(BarValues, n) :
            /\ \A t \in 1..n : ~Below(c[t], l[t]) /\ ~Below(h[t], c[t])
            /\ \E names \in {<<"low", "high", "close">>, <<"low", "high">>,
                             <<"low">>} :
                  df = FloatTable(n, names, <<l, h, c>>)

\* The table a caller hands to the indicator functions.
InitEngine ==
    /\ \/ CloseTable
       \/ BarTable
       \/ df = EmptyFrame
    /\ call = NoCall
    /\ combined = 0
    /\ calls = 0
    /\ Idle

\* One more call on the caller's table: the callee works on the very object
\* it is given and hands that object back, so what it assigned is in df
\* whether it returns or raises.
Ended(fn, args, r) ==
    \E out \in {r} :
        /\ df' = out.df
        /\ call' = [fn |-> fn, args |-> args, raised |-> out.raised]
        /\ calls' = calls + 1
        /\ UNCHANGED <<combined, dashboard>>

MayCall ==
    /\ call.raised = "none"
    /\ calls < MaxEngineCalls

calculate_sma ==
    /\ MayCall
    /\ \E window \in SmaWindows :
          Ended("calculate_sma", <<window>>, RunCalculateSma(df, window))

calculate_ema ==
    /\ MayCall
    /\ \E window \in EmaWindows :
          Ended("calculate_ema", <<window>>, RunCalculateEma(df, window))

calculate_rsi ==
    /\ MayCall
    /\ \E args \in RsiWindowArgs :
          Ended("calculate_rsi", args, RunCalculateRsi(df, RsiWindow(args)))

calculate_macd ==
    /\ MayCall
    /\ Ended("calculate_macd", <<>>,
             RunCalculateMacd(df, MacdFastDefault, MacdSlowDefault,
                              MacdSignalDefault))

calculate_bollinger_bands ==
    /\ MayCall
    /\ Ended("calculate_bollinger_bands", <<>>,
             RunCalculateBollingerBands(df, BollingerWindowDefault,
                                        BollingerStdDevDefault))

calculate_stochastic_oscillator ==
    /\ MayCall
    /\ \E args \in {<<1, 1>>} :
          Ended("calculate_stochastic_oscillator", args,
                RunCalculateStochasticOscillator(df, StochWindows(args)[1],
                                                 StochWindows(args)[2]))

NextEngine ==
    \/ calculate_sma
    \/ calculate_ema
    \/ calculate_rsi
    \/ calculate_macd
    \/ calculate_bollinger_bands
    \/ calculate_stochastic_oscillator
    \/ sma_crossover_strategy
    \/ rsi_strategy
    \/ macd_crossover_strategy
    \/ bollinger_bands_strategy
    \/ stochastic_oscillator_strategy

SpecEngine == InitEngine /\ [][NextEngine]_vars

\* ------------------------------------------------------------ update_graph
\* The strategy functions as calls: the table as the call left it and the
\* exception raised.
RunSmaCrossoverStrategy(d, short_window, long_window) ==
    IF ~HasCols(d, {SmaColumn(short_window)}) THEN Raise(d)
    ELSE IF ~HasCols(d, {SmaColumn(long_window)})
    THEN Raise(SetCol(d, "short_sma", d.cols[SmaColumn(short_window)]))
    ELSE Return(SmaCrossover(d, short_window, long_window))

RunRsiStrategy(d, overbought_level, oversold_level) ==
    IF ~HasCols(d, {"rsi"}) THEN Raise(d)
    ELSE Return(RsiStrategy(d, overbought_level, oversold_level))

RunMacdCrossoverStrategy(d) ==
    IF ~HasCols(d, {"macd", "macd_signal"}) THEN Raise(d)
    ELSE Return(MacdCrossover(d))

RunBollingerBandsStrategy(d) ==
    IF ~HasCols(d, {"close", "lower_band"}) THEN Raise(d)
    ELSE IF ~HasCols(d, {"upper_band"}) THEN Raise(BollingerBuy(d))
    ELSE Return(BollingerSell(BollingerBuy(d)))

RunStochasticOscillatorStrategy(d, overbought_level, oversold_level) ==
    IF ~HasCols(d, {"%K", "%D"}) THEN Raise(d)
    ELSE Return(StochasticOscillator(d, overbought_level, oversold_level))

\* The columns plot_stock_data reads from the table it is given.
PlotColumns ==
    {"open", "high", "low", "close", "sma_20", "sma_50", "ema_20",
     "upper_band", "middle_band", "lower_band", "buy_signal", "sell_signal",
     "bb_buy_signal", "bb_sell_signal", "rsi", "rsi_buy_signal",
     "rsi_sell_signal", "macd", "macd_signal", "macd_histogram",
     "macd_buy_signal", "macd_sell_signal", "%K", "%D", "stoch_buy_signal",
     "stoch_sell_signal", "strong_buy_signal", "strong_sell_signal"}

\* plot_stock_data(df, symbol): a figure, or the KeyError of the first
\* column the table lacks; the table is only read.
RunPlotStockData(d) == IF HasCols(d, PlotColumns) THEN Return(d) ELSE Raise(d)

\* The body of update_graph after get_daily_data: the seven indicator
\* calls, the five strategy calls and plot_stock_data, on one table.  A
\* statement is skipped once a call has raised.
EnrichAndPlot(data) ==
    LET Statement(k, d) ==
            CASE k = 1 -> RunCalculateSma(d, 20)
              [] k = 2 -> RunCalculateSma(d, 50)
              [] k = 3 -> RunCalculateEma(d, 20)
              [] k = 4 -> RunCalculateRsi(d, RsiWindowDefault)
              [] k = 5 -> RunCalculateMacd(d, MacdFastDefault, MacdSlowDefault,
                                           MacdSignalDefault)
              [] k = 6 -> RunCalculateBollingerBands(d, BollingerWindowDefault,
                                                     BollingerStdDevDefault)
              [] k = 7 -> RunCalculateStochasticOscillator(
                              d, StochKWindowDefault, StochDWindowDefault)
              [] k = 8 -> RunSmaCrossoverStrategy(d, 20, 50)
              [] k = 9 -> RunRsiStrategy(d, RsiOverboughtDefault,
                                         RsiOversoldDefault)
              [] k = 10 -> RunMacdCrossoverStrategy(d)
              [] k = 11 -> RunBollingerBandsStrategy(d)
              [] k = 12 -> RunStochasticOscillatorStrategy(
                               d, StochOverboughtDefault, StochOversoldDefault)
              [] k = 13 -> RunPlotStockData(d)
        RECURSIVE Through(_)
        Through(k) ==
            IF k = 0 THEN Return(data)
            ELSE CHOOSE out \in {IF r.raised = "none" THEN Statement(k, r.df)
                                 ELSE r : r \in {Through(k - 1)}} : TRUE
    IN  Through(13)

\* get_alpha_vantage_api_key(): the key, or nothing.
ApiKeys == {"", "KEY"}

\* What the user types into the symbol inputs.
Symbols == {"AAPL", "aapl", "MSFT"}

\* A table of daily bars as a price provider delivers it (low <= open,
\* close <= high); the volume column is read by nothing.
OhlcTable(n, o, h, l, c) ==
    FloatTable(n, <<"open", "high", "low", "close">>, <<o, h, l, c>>)

\* The API key and what get_daily_data(symbol, api_key) returns:
\* pd.DataFrame() when both providers fail, else the bars of one of them.
Environment ==
    \E key \in ApiKeys :
        \/ env = [api_key |-> key, data |-> EmptyFrame]
        \/ \E n \in 1..MaxGraphRows :
              \E o \in SeqsOfLen(BarValues, n), h \in SeqsOfLen(BarValues, n),
                 l \in SeqsOfLen(BarValues, n), c \in SeqsOfLen(BarValues, n) :
                  /\ \A t \in 1..n : /\ ~Below(o[t], l[t]) /\ ~Below(h[t], o[t])
                                     /\ ~Below(c[t], l[t]) /\ ~Below(h[t], c[t])
                  /\ env = [api_key |-> key, data |-> OhlcTable(n, o, h, l, c)]

Figure == [out |-> "figure", children |-> <<>>, feedback |-> <<>>]

EmptyFigure == [out |-> "{}", children |-> <<>>, feedback |-> <<>>]

\* update_graph(symbol): {} without an API key; else the figure of the
\* enriched table, or the exception a stage raises (nothing catches it).
update_graph ==
    \E symbol \in Symbols :
        /\ UNCHANGED <<combined, calls, env, watchlist, recent, market, broker,
                       clicks>>
        /\ IF env.api_key = ""
           THEN /\ df' = df
                /\ call' = Returned("update_graph", <<symbol>>)
                /\ ret' = EmptyFigure
           ELSE \E r \in {EnrichAndPlot(env.data)} :
                    /\ df' = r.df
                    /\ call' = [fn |-> "update_graph", args |-> <<symbol>>,
                                raised |-> r.raised]
                    /\ ret' = IF r.raised = "none" THEN Figure ELSE NoReturn

\* The dashboard before a callback has run, with the API key and the
\* provider's answer it will find.
InitGraph ==
    /\ df = EmptyFrame
    /\ call = NoCall
    /\ combined = 0
    /\ calls = 0
    /\ ret = NoReturn
    /\ watchlist = NoFile
    /\ recent = <<>>
    /\ market = [cache |-> NoFile, last |-> NoCall]
    /\ broker = [cache |-> NoFile, last |-> NoCall]
    /\ clicks = <<>>
    /\ Environment

NextGraph == update_graph

SpecGraph == InitGraph /\ [][NextGraph]_vars

\* -------------------------------------------------------- update_watchlist
\* The lines a watchlist.txt may hold: symbols as write_watchlist leaves
\* them, a hand-written one in lower case with a trailing blank, an empty
\* line.
FileLines == {"AAPL", "aapl ", "MSFT", ""}

\* str.strip()
Strip(s) == IF s = "aapl " THEN "aapl" ELSE IF s = "AAPL " THEN "AAPL" ELSE s

\* str.upper()
Upper(s) == IF s = "aapl" THEN "AAPL" ELSE IF s = "aapl " THEN "AAPL " ELSE s

\* The elements of a list.
Elems(list) == {list[i] : i \in 1..Len(list)}

\* read_watchlist(): [] without the file, else the stripped, upper-cased
\* lines that are not blank.
ReadWatchlist(file) ==
    IF ~file.exists THEN <<>>
    ELSE LET kept == SelectSeq(file.lines, LAMBDA line : Strip(line) # "")
         IN  [i \in 1..Len(kept) |-> Upper(Strip(kept[i]))]

\* write_watchlist(symbols): the file opened with 'w' (what it held is
\* gone), one line per symbol.
WriteWatchlist(file, symbols) == [exists |-> TRUE, lines |-> symbols]

\* list.remove(x): the list without the first x.
Remove(list, x) ==
    LET i == CHOOSE j \in 1..Len(list) :
                 list[j] = x /\ \A k \in 1..(j - 1) : list[k] # x
    IN  SubSeq(list, 1, i - 1) \o SubSeq(list, i + 1, Len(list))

\* is_valid_symbol(symbol, api_key): get_daily_data answers with rows.
IsValidSymbol(data) == data.rows > 0

\* Variant: an empty list shown, whatever was read.
ShownNothing(list, message) ==
    [out |-> "watchlist", children |-> <<>>, feedback |-> message]

\* The three outputs of update_watchlist: the list shown, '' for the
\* input box, the feedback message.
Shown(list, message) ==
    [out |-> "watchlist", children |-> list, feedback |-> message]

\* update_watchlist(add_clicks, remove_clicks, new_stock_symbol) on a
\* click of button_id; new-stock-input, a free text box, holds a symbol,
\* a symbol typed with a blank after it, or nothing.
update_watchlist ==
    \E button_id \in {"add-stock-button", "remove-stock-button"},
       new_stock_symbol \in Symbols \cup {"aapl ", ""} :
        LET list == ReadWatchlist(watchlist)
            symbol == Upper(new_stock_symbol)
            this == [fn |-> "update_watchlist",
                     args |-> <<button_id, new_stock_symbol>>,
                     raised |-> "none"]
        IN  /\ UNCHANGED <<df, combined, calls, env, market, broker, clicks>>
            /\ call' = this
            /\ recent' = IF recent = <<>>
                         THEN <<[call |-> this, found |-> watchlist]>>
                         ELSE <<recent[Len(recent)],
                                [call |-> this, found |-> watchlist]>>
            /\ IF button_id = "add-stock-button" /\ new_stock_symbol # ""
               THEN IF env.api_key = ""
                    THEN /\ watchlist' = watchlist
                         /\ ret' = Shown(list,
                                <<"API key not found. Cannot validate symbol.">>)
                    ELSE IF ~IsValidSymbol(env.data)
                    THEN /\ watchlist' = watchlist
                         /\ ret' = Shown(list,
                                <<symbol, " is not a valid stock symbol.">>)
                    ELSE IF symbol \notin Elems(list)
                    THEN /\ Len(list) < MaxSymbols
                         /\ watchlist' = WriteWatchlist(watchlist,
                                                        Append(list, symbol))
                         /\ ret' = Shown(Append(list, symbol),
                                <<symbol, " added to watchlist.">>)
                    ELSE /\ watchlist' = watchlist
                         /\ ret' = Shown(list,
                                <<symbol, " is already in watchlist.">>)
               ELSE IF button_id = "remove-stock-button" /\ new_stock_symbol # ""
               THEN IF symbol \in Elems(list)
                    THEN /\ watchlist' = WriteWatchlist(watchlist,
                                                        Remove(list, symbol))
                         /\ ret' = Shown(Remove(list, symbol),
                                <<symbol, " removed from watchlist.">>)
                    ELSE /\ watchlist' = watchlist
                         /\ ret' = Shown(list,
                                <<symbol, " not found in watchlist.">>)
               ELSE /\ watchlist' = watchlist
                    /\ ret' = Shown(list, <<>>)

\* The dashboard before a click: no watchlist.txt or one of a few lines,
\* an API key or none, a provider that answers with rows or with none.
InitWatchlist ==
    /\ df = EmptyFrame
    /\ call = NoCall
    /\ combined = 0
    /\ calls = 0
    /\ ret = NoReturn
    /\ recent = <<>>
    /\ market = [cache |-> NoFile, last |-> NoCall]
    /\ broker = [cache |-> NoFile, last |-> NoCall]
    /\ clicks = <<>>
    /\ \E key \in ApiKeys, data \in {EmptyFrame, OhlcTable(1, <<F(1)>>, <<F(1)>>, <<F(1)>>, <<F(1)>>)} :
          env = [api_key |-> key, data |-> data]
    /\ \/ watchlist = NoFile
       \/ \E n \in 0..MaxLines :
             \E lines \in SeqsOfLen(FileLines, n) :
                 watchlist = [exists |-> TRUE, lines |-> lines]

NextWatchlist == update_watchlist

SpecWatchlist == InitWatchlist /\ [][NextWatchlist]_vars

\* ---------------------------------------------------------- get_daily_data
\* get_daily_data keeps no values apart: its tables are [rows, columns,
\* index], the number of rows, the set of column names and the name of the
\* index ("" for the default RangeIndex).  cache/<symbol>.csv is a file
\* [exists, age, csv, columns, rows]: age is the hours since it was written,
\* csv is FALSE for contents pd.read_csv cannot parse.

\* timedelta(hours=24)
CacheTtlHours == 24

\* Variant: a file of exactly 24 hours still taken.
FreshInclusive(age) == age <= CacheTtlHours

\* datetime.now() - file_mod_time < timedelta(hours=24)
Fresh(age) == age < CacheTtlHours

\* get_daily_data(symbol, api_key), called when cache/<symbol>.csv has
\* reached the age `age`, with `av` what Alpha Vantage answers and `yf` what
\* yf.download answers if it is asked.
get_daily_data ==
    LET Frame(n, names, index) == [rows |-> n, columns |-> names, index |-> index]
        \* df.empty
        Empty(d) == d.rows = 0 \/ d.columns = {}
        \* pd.DataFrame()
        NoData == Frame(0, {}, "")
        \* df.rename(columns=column_mapping)
        Renamed(names) ==
            {CASE c = "1. open" -> "open"
               [] c = "2. high" -> "high"
               [] c = "3. low" -> "low"
               [] c = "4. close" -> "close"
               [] c = "5. volume" -> "volume"
               [] OTHER -> c : c \in names}
        \* [col.lower() ...], then rename 'adj close' to 'close'
        Lowered(names) ==
            {CASE c = "Open" -> "open"
               [] c = "Close" -> "close"
               [] c = "Adj Close" -> "close"
               [] OTHER -> c : c \in names}
        \* What requests.get(url) brings: an exception or a bad status, a
        \* JSON object, a text read_csv cannot parse, or a text read_csv
        \* parses: the daily CSV (with or without rows), one with the
        \* numbered names, one whose timestamps pd.to_datetime refuses, a
        \* JSON error body ending in a newline (line 56 lets it pass and
        \* read_csv makes the one column '{' of it).
        Text(names, n, dates) ==
            [kind |-> "text", columns |-> names, rows |-> n, dates |-> dates]
        AlphaVantage ==
            {[kind |-> "http_error"], [kind |-> "json"], [kind |-> "no_csv"],
             Text({"timestamp", "open", "close"}, 0, TRUE),
             Text({"timestamp", "open", "close"}, 1, TRUE),
             Text({"timestamp", "1. open", "4. close"}, 1, TRUE),
             Text({"timestamp", "open", "close"}, 1, FALSE),
             Text({"{"}, 1, TRUE)}
        \* What yf.download brings: an exception, or a table indexed by
        \* date, empty for an unknown symbol.
        YFinance ==
            {[kind |-> "error"],
             [kind |-> "table", columns |-> {}, rows |-> 0],
             [kind |-> "table", columns |-> {"Open", "Close"}, rows |-> 1],
             [kind |-> "table", columns |-> {"Open", "Close", "Adj Close"},
              rows |-> 1]}
        \* Lines 48-87: df after the Alpha Vantage block.
        AfterAlphaVantage(av) ==
            IF av.kind # "text" THEN NoData
            ELSE LET d == Frame(av.rows, Renamed(av.columns), "")
                 IN  IF "timestamp" \notin d.columns \/ ~av.dates THEN d
                     ELSE Frame(d.rows, d.columns \ {"timestamp"}, "timestamp")
        \* Lines 91-113: df after the yfinance block.
        AfterYFinance(yf) ==
            IF yf.kind = "error" THEN NoData
            ELSE IF Empty(Frame(yf.rows, yf.columns, "Date")) THEN NoData
            ELSE Frame(yf.rows, Lowered(yf.columns), "timestamp")
        \* df.to_csv(f, index=True): the index comes first, under its name.
        ToCsv(d) ==
            [exists |-> TRUE, age |-> 0, csv |-> TRUE, rows |-> d.rows,
             columns |-> d.columns
                         \cup {IF d.index = "" THEN "Unnamed: 0" ELSE d.index}]
        \* pd.read_csv(cache_file, index_col='timestamp', parse_dates=True)
        \* does not raise.
        Readable(file) == file.csv /\ "timestamp" \in file.columns
        FromCsv(file) ==
            Frame(file.rows, file.columns \ {"timestamp"}, "timestamp")
    IN  /\ UNCHANGED <<df, call, combined, calls, env, ret, watchlist, recent,
                       broker, clicks>>
        /\ \E symbol \in {"AAPL"}, age \in {0, 23, 24, 25},
              av \in AlphaVantage, yf \in YFinance :
              LET found == IF market.cache.exists
                           THEN [market.cache EXCEPT !.age = age]
                           ELSE market.cache
                  this == [fn |-> "get_daily_data", args |-> <<symbol>>,
                           raised |-> "none", found |-> found,
                           av |-> av, yf |-> yf]
                  unasked == [kind |-> "none"]
              IN  /\ market.cache.exists => age >= market.cache.age
                  /\ IF /\ found.exists
                        /\ Fresh(found.age)
                        /\ Readable(found)
                        /\ "close" \in FromCsv(found).columns
                     THEN market' =
                              [cache |-> found,
                               last |-> [this EXCEPT !.av = unasked,
                                                     !.yf = unasked],
                               asked |-> <<>>,
                               result |-> FromCsv(found)]
                     ELSE LET d1 == AfterAlphaVantage(av)
                              d2 == IF Empty(d1) THEN AfterYFinance(yf) ELSE d1
                          IN  market' =
                                  [cache |-> IF ~Empty(d2) /\ "close" \in d2.columns
                                             THEN ToCsv(d2) ELSE found,
                                   last |-> IF Empty(d1) THEN this
                                            ELSE [this EXCEPT !.yf = unasked],
                                   asked |-> IF Empty(d1)
                                             THEN <<"alphavantage", "yfinance">>
                                             ELSE <<"alphavantage">>,
                                   result |-> d2]

\* The cache directory before a call: no file for the symbol, or one
\* written some hours ago: by get_daily_data (with the timestamp index, or
\* with an unnamed one), by something else without a close column or
\* without rows, or cut short so that read_csv fails.
InitMarket ==
    /\ df = EmptyFrame
    /\ call = NoCall
    /\ combined = 0
    /\ calls = 0
    /\ env = [api_key |-> "KEY", data |-> EmptyFrame]
    /\ ret = NoReturn
    /\ watchlist = NoFile
    /\ recent = <<>>
    /\ broker = [cache |-> NoFile, last |-> NoCall]
    /\ clicks = <<>>
    /\ \E file \in {NoFile}
                   \cup {[exists |-> TRUE, age |-> age, csv |-> csv, rows |-> n,
                          columns |-> names] :
                            age \in {0, 23, 24}, csv \in BOOLEAN, n \in {0, 1},
                            names \in {{"timestamp", "open", "close"},
                                       {"timestamp", "open"},
                                       {"Unnamed: 0", "open", "close"}}} :
          market = [cache |-> file, last |-> NoCall]

NextMarket == get_daily_data

SpecMarket == InitMarket /\ [][NextMarket]_vars

\* ------------------------------------------------------- get_trade_history
\* Dates are day numbers; a trade_date is <<d>>, or <<>> for None.  A cached
\* transaction is [account_id, type, symbol, quantity, trade_date,
\* net_amount] (description and price are read by nothing);
\* schwab_cache/trade_history.json is NoFile or [exists, transactions].

\* timedelta(days=365)
YearDays == 365

\* Variant: the range sent as computed, however long.
FetchRangeUnclamped(fetch_start_date_obj, fetch_end_date_obj) ==
    IF fetch_start_date_obj > fetch_end_date_obj THEN <<>>
    ELSE <<fetch_start_date_obj, fetch_end_date_obj>>

\* Lines 180-188: no request when the start is after the end; a range of
\* more than 365 days is cut to the last 365.
FetchRange(fetch_start_date_obj, fetch_end_date_obj) ==
    IF fetch_start_date_obj > fetch_end_date_obj THEN <<>>
    ELSE IF fetch_end_date_obj - fetch_start_date_obj > YearDays
    THEN <<fetch_end_date_obj - YearDays, fetch_end_date_obj>>
    ELSE <<fetch_start_date_obj, fetch_end_date_obj>>

\* Variant: every fetched transaction appended.
MergeAll(all_transactions, newly_fetched_transactions) ==
    all_transactions \o newly_fetched_transactions

\* Lines 226-240: the fetched transactions whose (account_id, trade_date,
\* symbol, quantity) is not yet among the cached or appended ones are
\* appended, in their order.
Merge(all_transactions, newly_fetched_transactions) ==
    LET Id(t) == <<t.account_id, t.trade_date, t.symbol, t.quantity>>
        RECURSIVE Upto(_)
        Upto(k) ==
            IF k = 0 THEN all_transactions
            ELSE CHOOSE out \in
                    {IF \E i \in 1..Len(list) :
                            Id(list[i]) = Id(newly_fetched_transactions[k])
                     THEN list
                     ELSE Append(list, newly_fetched_transactions[k]) :
                        list \in {Upto(k - 1)}} : TRUE
    IN  Upto(Len(newly_fetched_transactions))

\* get_trade_history(start_date, end_date, account_id) on the cache file
\* `file`, on the day `today`, with the brokerage answering as `api` says:
\* the file it leaves, what it returns, the get_transactions requests it
\* sent, what it fetched, the exception it raised.  None and the missing
\* account_id are <<>> and "".
TradeHistory(file, today, start_date, end_date, account_id, api) ==
    LET all == IF file.exists THEN file.transactions ELSE <<>>
        Dated(list) == SelectSeq(list, LAMBDA t : t.trade_date # <<>>)
        \* max(... .date() for t in list if t['trade_date'])
        Latest(list) ==
            CHOOSE d \in {list[i].trade_date[1] : i \in 1..Len(list)} :
                \A i \in 1..Len(list) : list[i].trade_date[1] <= d
        Done(f, result, sent, new, raised, wrote) ==
            [file |-> f, result |-> result, requests |-> sent,
             fetched |-> new, raised |-> raised, wrote |-> wrote]
        accounts_to_fetch ==
            IF account_id # "" THEN <<account_id>> ELSE api.accounts.ids
        \* Lines 200-218: the fields kept of a fetched transaction.
        Processed(a, items) ==
            [i \in 1..Len(items) |->
                [account_id |-> a, type |-> items[i].type,
                 symbol |-> items[i].symbol, quantity |-> items[i].amount,
                 trade_date |-> items[i].tradeDate,
                 net_amount |-> items[i].netAmount]]
        \* Lines 155-219 for the k-th account, after the ones before it.
        Account(k, so_far) ==
            LET a == accounts_to_fetch[k]
                cached == SelectSeq(all, LAMBDA t : t.account_id = a)
            IN  IF so_far.raised # "none" THEN so_far
                ELSE IF cached # <<>> /\ Dated(cached) = <<>>
                THEN [so_far EXCEPT !.raised = "ValueError"]
                ELSE LET start == IF cached # <<>> THEN Latest(Dated(cached)) + 1
                                  ELSE IF start_date = <<>> THEN today - YearDays
                                  ELSE start_date[1]
                         end == IF end_date = <<>> THEN today ELSE end_date[1]
                         range == FetchRange(start, end)
                     IN  IF range = <<>> THEN so_far
                         ELSE [requests |-> Append(so_far.requests,
                                   [account |-> a, start_date |-> range[1],
                                    end_date |-> range[2]]),
                               fetched |-> IF api.transactions[a].ok
                                           THEN so_far.fetched \o
                                                Processed(a, api.transactions[a].items)
                                           ELSE so_far.fetched,
                               raised |-> "none"]
        RECURSIVE Accounts(_)
        Accounts(k) ==
            IF k = 0 THEN [requests |-> <<>>, fetched |-> <<>>, raised |-> "none"]
            ELSE CHOOSE out \in {Account(k, s) : s \in {Accounts(k - 1)}} : TRUE
        \* list.sort(key=(trade_date, account_id)): stable; None does not
        \* compare with a date string.
        Before(s, t) ==
            \/ s.trade_date # <<>> /\ t.trade_date # <<>>
                   /\ s.trade_date[1] < t.trade_date[1]
            \/ s.trade_date = t.trade_date
                   /\ s.account_id = "A" /\ t.account_id = "B"
        RECURSIVE Sorted(_)
        Sorted(list) ==
            IF list = <<>> THEN <<>>
            ELSE LET i == CHOOSE j \in 1..Len(list) :
                              /\ \A k \in 1..Len(list) : ~Before(list[k], list[j])
                              /\ \A k \in 1..(j - 1) : Before(list[j], list[k])
                 IN  <<list[i]>> \o
                     Sorted(SubSeq(list, 1, i - 1) \o SubSeq(list, i + 1, Len(list)))
    IN  IF all # <<>> /\ Dated(all) = <<>>
        THEN Done(file, <<>>, <<>>, <<>>, "ValueError", FALSE)
        ELSE IF ~api.client \/ ~api.accounts.ok \/ api.accounts.ids = <<>>
        THEN Done(file, <<>>, <<>>, <<>>, "none", FALSE)
        ELSE IF account_id # ""
                /\ \A i \in 1..Len(api.accounts.ids) : api.accounts.ids[i] # account_id
        THEN Done(file, all, <<>>, <<>>, "none", FALSE)
        ELSE \* bound once: the loop's outcome, then the merged list
             CHOOSE out \in
                {IF loop.raised # "none"
                 THEN Done(file, <<>>, loop.requests, loop.fetched, loop.raised, FALSE)
                 ELSE CHOOSE done \in
                        {IF Dated(merged) # <<>> /\ Dated(merged) # merged
                         THEN Done(file, <<>>, loop.requests, loop.fetched,
                                   "TypeError", FALSE)
                         ELSE Done([exists |-> TRUE, transactions |-> Sorted(merged)],
                                   Sorted(merged), loop.requests, loop.fetched,
                                   "none", TRUE) :
                            merged \in {Merge(all, loop.fetched)}} : TRUE :
                    loop \in {Accounts(Len(accounts_to_fetch))}} : TRUE

\* get_trade_history(start_date, end_date, account_id) as a caller runs it:
\* with the defaults or with dates around the one-year limit, for all
\* accounts, for one of them, or for an account the brokerage does not know.
get_trade_history ==
    /\ UNCHANGED <<df, call, combined, calls, env, ret, watchlist, recent,
                   market, clicks>>
    /\ \E start_date \in {<<>>, <<broker.today - YearDays - 1>>, <<broker.today + 1>>},
          end_date \in {<<>>, <<broker.today - 1>>},
          account_id \in {"", "A", "Z"} :
          \E r \in {TradeHistory(broker.cache, broker.today, start_date,
                                 end_date, account_id, broker.api)} :
              broker' = [broker EXCEPT
                            !.cache = r.file,
                            !.prev = [fn |-> broker.last.fn,
                                      fetched |-> broker.last.fetched,
                                      wrote |-> broker.last.wrote],
                            !.last = [fn |-> "get_trade_history",
                                      args |-> <<start_date, end_date, account_id>>,
                                      raised |-> r.raised,
                                      found |-> broker.cache,
                                      requests |-> r.requests,
                                      fetched |-> r.fetched,
                                      wrote |-> r.wrote,
                                      result |-> r.result]]

\* get_long_term_holdings(): get_trade_history(account_id=None) and
\* get_positions() (its own cache file is left out: `positions` is what it
\* returns), then the loops over them.  The function ends without a return
\* statement: the caller gets None, whatever long_term_holdings holds.
get_long_term_holdings ==
    /\ UNCHANGED <<df, call, combined, calls, env, ret, watchlist, recent,
                   market, clicks>>
    /\ \E current_positions \in
              {<<>>, <<[account_id |-> "A", symbol |-> "AAPL", quantity |-> 5]>>} :
          \E r \in {TradeHistory(broker.cache, broker.today, <<>>, <<>>, "",
                                 broker.api)} :
              LET transactions == r.result
                  one_year_ago == broker.today - YearDays
                  \* dict.get(key): <<value>>, or <<>> for None
                  Get(t, key) == IF key \in DOMAIN t THEN <<t[key]>> ELSE <<>>
                  \* sum(current_holdings_by_symbol_account[symbol].values())
                  RECURSIVE HeldIn(_, _)
                  HeldIn(symbol, k) ==
                      IF k = 0 THEN 0
                      ELSE HeldIn(symbol, k - 1)
                           + (IF current_positions[k].symbol = symbol
                              THEN current_positions[k].quantity ELSE 0)
                  Held(symbol) == HeldIn(symbol, Len(current_positions))
                  \* Lines 277-309 for the k-th transaction.
                  Trade(t, holdings) ==
                      LET symbol == Get(t, "symbol")
                          quantity == Get(t, "quantity")
                          trade_date_str == Get(t, "tradeDate")
                          net_amount == Get(t, "netAmount")
                          had == IF symbol[1] \in DOMAIN holdings
                                 THEN holdings[symbol[1]] ELSE 0
                          Put(q) == [s \in DOMAIN holdings \cup {symbol[1]} |->
                                        IF s = symbol[1] THEN q ELSE holdings[s]]
                      IN  IF \/ Get(t, "type") # <<"TRADE">>
                             \/ symbol = <<>> \/ quantity = <<>>
                             \/ trade_date_str = <<>> \/ trade_date_str = <<<<>>>>
                             \/ net_amount = <<>>
                          THEN holdings
                          ELSE IF net_amount[1] < 0
                                  /\ trade_date_str[1][1] < one_year_ago
                          THEN Put(had + Abs(quantity[1]))
                          ELSE IF net_amount[1] > 0
                          THEN Put(IF had > Abs(quantity[1])
                                   THEN had - Abs(quantity[1]) ELSE 0)
                          ELSE holdings
                  RECURSIVE After(_)
                  After(k) ==
                      IF k = 0 THEN <<>>
                      ELSE CHOOSE out \in {Trade(transactions[k], h) :
                                              h \in {After(k - 1)}} : TRUE
                  \* Lines 313-320
                  Final(holdings) ==
                      [s \in {x \in DOMAIN holdings :
                                 holdings[x] > 0 /\ Held(x) > 0} |->
                          IF holdings[s] < Held(s) THEN holdings[s] ELSE Held(s)]
              IN  broker' = [broker EXCEPT
                                !.cache = r.file,
                                !.prev = [fn |-> broker.last.fn,
                                          fetched |-> broker.last.fetched,
                                          wrote |-> broker.last.wrote],
                                !.last = [fn |-> "get_long_term_holdings",
                                          args |-> <<current_positions>>,
                                          raised |-> r.raised,
                                          found |-> broker.cache,
                                          requests |-> r.requests,
                                          fetched |-> r.fetched,
                                          wrote |-> r.wrote,
                                          transactions |-> transactions,
                                          long_term_holdings |->
                                              IF r.raised # "none" THEN <<>>
                                              ELSE Final(After(Len(transactions))),
                                          result |-> "None"]]

\* The brokerage cache before a call and the brokerage behind the API, which
\* answers every request the same way: credentials or none, the account
\* list or an error, and per account an error or a list of transactions: a
\* buy of more than a year ago, the same buy booked twice with different
\* amounts, a sale of today, a transaction without tradeDate.
InitBroker ==
    /\ df = EmptyFrame
    /\ call = NoCall
    /\ combined = 0
    /\ calls = 0
    /\ env = [api_key |-> "KEY", data |-> EmptyFrame]
    /\ ret = NoReturn
    /\ watchlist = NoFile
    /\ recent = <<>>
    /\ market = [cache |-> NoFile, last |-> NoCall]
    /\ clicks = <<>>
    /\ \E today \in {400} :
          LET Raw(date, symbol, amount, net) ==
                  [type |-> "TRADE", tradeDate |-> date, symbol |-> symbol,
                   amount |-> amount, netAmount |-> net]
              old_buy == Raw(<<today - YearDays - 1>>, "AAPL", 5, 0 - 500)
              Cached(a, raw) ==
                  [account_id |-> a, type |-> raw.type, symbol |-> raw.symbol,
                   quantity |-> raw.amount, trade_date |-> raw.tradeDate,
                   net_amount |-> raw.netAmount]
              Answers ==
                  {[ok |-> FALSE, items |-> <<>>]}
                  \cup {[ok |-> TRUE, items |-> items] :
                          items \in {<<>>, <<old_buy>>,
                                     <<old_buy, Raw(<<today - YearDays - 1>>, "AAPL", 5, 0 - 510)>>,
                                     <<Raw(<<today>>, "AAPL", 5, 600)>>,
                                     <<old_buy, Raw(<<>>, "MSFT", 1, 0 - 10)>>}}
              apis ==
                  {[client |-> FALSE, accounts |-> [ok |-> FALSE, ids |-> <<>>],
                    transactions |-> <<>>]}
                  \cup {[client |-> TRUE, accounts |-> accounts,
                         transactions |-> <<>>] :
                            accounts \in {[ok |-> FALSE, ids |-> <<>>],
                                          [ok |-> TRUE, ids |-> <<>>]}}
                  \cup {[client |-> TRUE,
                         accounts |-> [ok |-> TRUE, ids |-> ids],
                         transactions |->
                             [a \in {"A", "B"} |->
                                 IF a = "A" THEN answer_a ELSE answer_b]] :
                            ids \in {<<"A">>, <<"A", "B">>},
                            answer_a \in Answers,
                            answer_b \in {x \in Answers : Len(x.items) <= 1}}
          IN  \E api \in apis,
                 file \in {NoFile,
                           [exists |-> TRUE, transactions |-> <<>>],
                           [exists |-> TRUE,
                            transactions |-> <<Cached("A", old_buy)>>],
                           [exists |-> TRUE,
                            transactions |-> <<Cached("B", Raw(<<>>, "MSFT", 1, 0 - 10))>>]} :
                  broker = [cache |-> file,
                            today |-> today,
                            api |-> api,
                            prev |-> [fn |-> "none", fetched |-> <<>>,
                                      wrote |-> FALSE],
                            last |-> [fn |-> "none", fetched |-> <<>>,
                                      wrote |-> FALSE]]

NextBroker ==
    \/ get_trade_history
    \/ get_long_term_holdings

SpecBroker == InitBroker /\ [][NextBroker]_vars

\* --------------------------------------- update_watchlist, side by side
\* app.run serves every request on a thread of its own, so two clicks
\* run update_watchlist side by side on the one watchlist.txt.  A running
\* callback is [args, at, watchlist, ret]: its button and typed symbol,
\* where it stands ("triggered", "read", "returned"), its local list and
\* what it returned.  Between read_watchlist and the rest of the handler
\* (the provider's answer to is_valid_symbol is awaited there) the other
\* callback may take any of its steps.

Triggered(button_id, new_stock_symbol) ==
    [args |-> <<button_id, new_stock_symbol>>, at |-> "triggered",
     watchlist |-> <<>>, ret |-> NoReturn]

\* watchlist = read_watchlist() of one running callback.
read_watchlist ==
    \E i \in 1..Len(clicks) :
        /\ clicks[i].at = "triggered"
        /\ clicks' = [clicks EXCEPT ![i].at = "read",
                                    ![i].watchlist = ReadWatchlist(watchlist)]
        /\ UNCHANGED <<df, call, combined, calls, env, ret, watchlist,
                       recent, market, broker>>

\* The rest of update_watchlist after the read: the branch on the button,
\* the validation, write_watchlist(watchlist) of the local list, the return.
write_watchlist ==
    \E i \in 1..Len(clicks) :
        LET button_id == clicks[i].args[1]
            new_stock_symbol == clicks[i].args[2]
            list == clicks[i].watchlist
            symbol == Upper(new_stock_symbol)
            Finish(file, shown) ==
                /\ watchlist' = file
                /\ clicks' = [clicks EXCEPT ![i].at = "returned",
                                            ![i].watchlist = shown.children,
                                            ![i].ret = shown]
        IN  /\ clicks[i].at = "read"
            /\ UNCHANGED <<df, call, combined, calls, env, ret, recent,
                           market, broker>>
            /\ IF button_id = "add-stock-button" /\ new_stock_symbol # ""
               THEN IF env.api_key = ""
                    THEN Finish(watchlist, Shown(list,
                            <<"API key not found. Cannot validate symbol.">>))
                    ELSE IF ~IsValidSymbol(env.data)
                    THEN Finish(watchlist, Shown(list,
                            <<symbol, " is not a valid stock symbol.">>))
                    ELSE IF symbol \notin Elems(list)
                    THEN Finish(WriteWatchlist(watchlist, Append(list, symbol)),
                                  Shown(Append(list, symbol),
                                        <<symbol, " added to watchlist.">>))
                    ELSE Finish(watchlist, Shown(list,
                            <<symbol, " is already in watchlist.">>))
               ELSE IF button_id = "remove-stock-button" /\ new_stock_symbol # ""
               THEN IF symbol \in Elems(list)
                    THEN Finish(WriteWatchlist(watchlist, Remove(list, symbol)),
                                  Shown(Remove(list, symbol),
                                        <<symbol, " removed from watchlist.">>))
                    ELSE Finish(watchlist, Shown(list,
                            <<symbol, " not found in watchlist.">>))
               ELSE Finish(watchlist, Shown(list, <<>>))

\* Two clicks have just arrived, each with a button and a typed symbol;
\* watchlist.txt is missing or holds a few lines.
InitClicks ==
    /\ df = EmptyFrame
    /\ call = NoCall
    /\ combined = 0
    /\ calls = 0
    /\ ret = NoReturn
    /\ recent = <<>>
    /\ market = [cache |-> NoFile, last |-> NoCall]
    /\ broker = [cache |-> NoFile, last |-> NoCall]
    /\ \E key \in ApiKeys, data \in {EmptyFrame, OhlcTable(1, <<F(1)>>, <<F(1)>>, <<F(1)>>, <<F(1)>>)} :
          env = [api_key |-> key, data |-> data]
    /\ \/ watchlist = NoFile
       \/ \E n \in 0..MaxLines :
             \E lines \in SeqsOfLen(FileLines, n) :
                 watchlist = [exists |-> TRUE, lines |-> lines]
    /\ \E b1, b2 \in {"add-stock-button", "remove-stock-button"},
          s1, s2 \in Symbols \cup {""} :
          clicks = <<Triggered(b1, s1), Triggered(b2, s2)>>

NextClicks == read_watchlist \/ write_watchlist

SpecClicks == InitClicks /\ [][NextClicks]_vars

\* ------------------------------------------------------------ properties
Rows == 1..df.rows

Col(name) == df.cols[name].values

\* The per-strategy signal columns of the table, by the naming scheme.
StrategyBuyColumns == {BuyColumn(s) : s \in Strategies} \cap Columns(df)

StrategySellColumns == {SellColumn(s) : s \in Strategies} \cap Columns(df)

\* The number of the columns in names that are true in row t.
TrueCount(names, t) == Cardinality({c \in names : Col(c)[t]})

\* C1: after combine_signals, no date has strong_buy_signal and
\* strong_sell_signal both true, whatever the per-strategy signals are.
C1_MutualExclusion ==
    combined >= 1 =>
        \A t \in Rows :
            ~(Col("strong_buy_signal")[t] /\ Col("strong_sell_signal")[t])

\* A combined table with a strong buy on a date where a sell count could
\* have been positive: two strategies, both buy signals true.
C1_Witness ==
    /\ combined >= 1
    /\ \E t \in Rows :
          /\ Col("strong_buy_signal")[t]
          /\ TrueCount(StrategyBuyColumns, t) >= 2

\* C2: combine_signals leaves strong_buy_signal true exactly on the dates
\* where the buy count it computed is at least 2 and the sell count is 0,
\* and strong_sell_signal true exactly where the sell count is at least 2
\* and the buy count is 0; on a table combined for the first time these
\* counts are the numbers of true per-strategy buy and sell columns.
C2_StrongIffCounts ==
    combined >= 1 =>
        \A t \in Rows :
            /\ Col("strong_buy_signal")[t] <=>
                  (Col("buy_signal_count")[t] >= 2 /\ Col("sell_signal_count")[t] = 0)
            /\ Col("strong_sell_signal")[t] <=>
                  (Col("sell_signal_count")[t] >= 2 /\ Col("buy_signal_count")[t] = 0)
            /\ combined = 1 =>
                  /\ Col("strong_buy_signal")[t] <=>
                        /\ TrueCount(StrategyBuyColumns, t) >= 2
                        /\ TrueCount(StrategySellColumns, t) = 0
                  /\ Col("strong_sell_signal")[t] <=>
                        /\ TrueCount(StrategySellColumns, t) >= 2
                        /\ TrueCount(StrategyBuyColumns, t) = 0

\* A table combined once with a strong sell on some date.
C2_Witness ==
    /\ combined = 1
    /\ \E t \in Rows :
          /\ Col("strong_sell_signal")[t]
          /\ Col("sell_signal_count")[t] = 2

\* C3: after any number of combine_signals calls, buy_signal_count and
\* sell_signal_count are on every date the numbers of true per-strategy buy
\* and sell columns (no aggregate column is counted), so the strong signals
\* after a second call are those of the first.
C3_CountsOnlyStrategyColumns ==
    combined >= 1 =>
        \A t \in Rows :
            /\ Col("buy_signal_count")[t] = TrueCount(StrategyBuyColumns, t)
            /\ Col("sell_signal_count")[t] = TrueCount(StrategySellColumns, t)
            /\ Col("strong_buy_signal")[t] <=>
                  /\ TrueCount(StrategyBuyColumns, t) >= 2
                  /\ TrueCount(StrategySellColumns, t) = 0
            /\ Col("strong_sell_signal")[t] <=>
                  /\ TrueCount(StrategySellColumns, t) >= 2
                  /\ TrueCount(StrategyBuyColumns, t) = 0

\* Cell c holds a number.
Defined(c) == c # NaN

\* Rows t-1 and t of A and B all hold numbers, t not being the first row.
DefinedAt(A, B, t) ==
    /\ t > 1
    /\ Defined(A[t - 1]) /\ Defined(B[t - 1])
    /\ Defined(A[t]) /\ Defined(B[t])

\* A[t-1] < B[t-1] and A[t] > B[t]
BuyCross(A, B, t) ==
    DefinedAt(A, B, t) /\ A[t - 1][1] < B[t - 1][1] /\ A[t][1] > B[t][1]

\* A[t-1] > B[t-1] and A[t] < B[t]
SellCross(A, B, t) ==
    DefinedAt(A, B, t) /\ A[t - 1][1] > B[t - 1][1] /\ A[t][1] < B[t][1]

\* The last call was fn and it returned.
JustReturned(fn) == call.fn = fn /\ call.raised = "none"

\* C4: after sma_crossover_strategy (short SMA vs long SMA, the columns the
\* window arguments name) and after macd_crossover_strategy (macd vs
\* macd_signal), the buy signal of a date is true iff A was below B the date
\* before and is above B now, and the sell signal iff A was above B the date
\* before and is below B now; equal or missing values give no signal.
C4_StrictCross ==
    /\ JustReturned("sma_crossover_strategy") =>
          LET w == IF call.args = <<>> THEN <<20, 50>> ELSE call.args
              A == Col(SmaColumn(w[1]))
              B == Col(SmaColumn(w[2]))
          IN  \A t \in Rows :
                  /\ Col("buy_signal")[t] <=> BuyCross(A, B, t)
                  /\ Col("sell_signal")[t] <=> SellCross(A, B, t)
    /\ JustReturned("macd_crossover_strategy") =>
          \A t \in Rows :
              /\ Col("macd_buy_signal")[t] <=>
                    BuyCross(Col("macd"), Col("macd_signal"), t)
              /\ Col("macd_sell_signal")[t] <=>
                    SellCross(Col("macd"), Col("macd_signal"), t)

\* The short SMA was equal to the long SMA and rose above it: no buy signal,
\* next to a date with a strict cross and its buy signal.
C4_Witness ==
    /\ JustReturned("sma_crossover_strategy")
    /\ call.args = <<>>
    /\ df.rows >= 2
    /\ Col("sma_20")[1] = F(1) /\ Col("sma_50")[1] = F(1)
    /\ Col("sma_20")[2] = F(2) /\ Col("sma_50")[2] = F(1)
    /\ ~Col("buy_signal")[2]

\* C5: the crossover detection is anti-symmetric: on no date do the SMA
\* crossover or the MACD crossover give a buy signal and a sell signal.
C5_AntiSymmetric ==
    /\ HasCols(df, {"buy_signal", "sell_signal"}) =>
          \A t \in Rows : Col("buy_signal")[t] => ~Col("sell_signal")[t]
    /\ HasCols(df, {"macd_buy_signal", "macd_sell_signal"}) =>
          \A t \in Rows : Col("macd_buy_signal")[t] => ~Col("macd_sell_signal")[t]

\* A MACD buy cross has been signalled.
C5_Witness ==
    /\ HasCols(df, {"macd_buy_signal", "macd_sell_signal"})
    /\ \E t \in Rows : Col("macd_buy_signal")[t]

\* The signal columns of the strategies that compare with the previous row.
CrossingSignalColumns ==
    {"buy_signal", "sell_signal", "rsi_buy_signal", "rsi_sell_signal",
     "macd_buy_signal", "macd_sell_signal",
     "stoch_buy_signal", "stoch_sell_signal"}

\* C6: the SMA crossover, RSI threshold, MACD crossover and Stochastic
\* signals are false at index 0, whatever the series hold.
C6_FirstRowFalse ==
    df.rows >= 1 =>
        \A c \in CrossingSignalColumns \cap Columns(df) : ~Col(c)[1]

\* rsi_strategy has run on a series that starts at or below the oversold
\* level and is above it on the next date.
C6_Witness ==
    /\ JustReturned("rsi_strategy")
    /\ call.args = <<>>
    /\ df.rows >= 2
    /\ Col("rsi")[1] = F(25)
    /\ Col("rsi")[2] = F(35)
    /\ ~Col("rsi_buy_signal")[1]

\* C7: after rsi_strategy, rsi_buy_signal[t] iff rsi[t-1] > oversold and
\* rsi[t] <= oversold, and rsi_sell_signal[t] iff rsi[t-1] < overbought and
\* rsi[t] >= overbought; a call without level arguments uses oversold 30
\* and overbought 70.
C7_RsiThreshold ==
    JustReturned("rsi_strategy") =>
        LET overbought == IF call.args = <<>> THEN 70 ELSE call.args[1]
            oversold == IF call.args = <<>> THEN 30 ELSE call.args[2]
            rsi == Col("rsi")
        IN  \A t \in Rows :
                /\ Col("rsi_buy_signal")[t] <=>
                      /\ t > 1 /\ Defined(rsi[t - 1]) /\ Defined(rsi[t])
                      /\ rsi[t - 1][1] > oversold
                      /\ rsi[t][1] <= oversold
                /\ Col("rsi_sell_signal")[t] <=>
                      /\ t > 1 /\ Defined(rsi[t - 1]) /\ Defined(rsi[t])
                      /\ rsi[t - 1][1] < overbought
                      /\ rsi[t][1] >= overbought

\* A default call signalled a buy on a date where the RSI is exactly 30.
C7_Witness ==
    /\ JustReturned("rsi_strategy")
    /\ call.args = <<>>
    /\ \E t \in Rows : Col("rsi")[t] = F(30) /\ Col("rsi_buy_signal")[t]

\* The self-test's RSI column has been given to rsi_strategy with the
\* default levels.
RsiSampleRun ==
    /\ JustReturned("rsi_strategy")
    /\ call.args = <<>>
    /\ Col("rsi") = RsiSample

\* C8 as stated: for the RSI sequence [50,40,35,25,28,32,60,75,72,65] and
\* oversold 30, rsi_buy_signal is false at index 3 (35 -> 25).
C8_AsStated == RsiSampleRun => ~Col("rsi_buy_signal")[4]

\* C8 amended: for that sequence rsi_buy_signal is true at index 3, where
\* the RSI moves from 35 (above 30) to 25 (at or below 30).
C8_SampleBuyAtIndex3 == RsiSampleRun => Col("rsi_buy_signal")[4]

C8_Witness == RsiSampleRun /\ Col("rsi")[3] = F(35) /\ Col("rsi")[4] = F(25)

RsiOfWindow(window) ==
    /\ HasCols(df, {"close", "rsi"})
    /\ Col("rsi") = CalculateRsi(df, window).cols["rsi"].values

\* C11: on a table whose SMA columns come from calculate_sma, every
\* buy_signal and sell_signal of sma_crossover_strategy(short, long) at an
\* index below long is false, and on a table whose rsi column comes from
\* calculate_rsi(window), every rsi_buy_signal and rsi_sell_signal of
\* rsi_strategy at an index below window is false (index t is position
\* t + 1).
C11_NoSignalBeforeWindow ==
    /\ JustReturned("sma_crossover_strategy") =>
          \A t \in Rows :
              t <= SmaParams(call.args)[2] =>
                  ~Col("buy_signal")[t] /\ ~Col("sell_signal")[t]
    /\ JustReturned("rsi_strategy") =>
          \A a \in RsiWindowArgs :
              RsiOfWindow(RsiWindow(a)) =>
                  \A t \in Rows :
                      t <= RsiWindow(a) =>
                          ~Col("rsi_buy_signal")[t] /\ ~Col("rsi_sell_signal")[t]

\* rsi_strategy has returned on an rsi column of window 2 with a buy signal
\* at index 2, the first index the claim allows.
C11_Witness ==
    /\ JustReturned("rsi_strategy")
    /\ RsiOfWindow(2)
    /\ df.rows >= 3
    /\ Col("rsi_buy_signal")[3]

\* The sum of the closing prices (whole numbers in the tables drawn) at
\* positions lo..hi.
RECURSIVE CloseSum(_, _)
CloseSum(lo, hi) ==
    IF lo > hi THEN 0 ELSE Num(Col("close")[lo]) + CloseSum(lo + 1, hi)

\* C12: the column calculate_sma(window=w) assigns is undefined at every
\* index below w-1 and at every index i >= w-1 is the arithmetic mean of
\* close[i-w+1..i] (w times the cell is the sum of the w closes); on the
\* self-test's closes 100, 102, 101, 103, 105 with w = 3 it is undefined at
\* indices 0 and 1 and 101 at index 2.
C12_SmaIsWindowMean ==
    \A w \in SmaWindows :
        HasCols(df, {"close", SmaColumn(w)}) =>
            /\ \A t \in Rows :
                  LET sma == Col(SmaColumn(w))[t]
                  IN  IF t < w
                      THEN IsNaN(sma)
                      ELSE /\ Defined(sma)
                           /\ Num(sma) * w = CloseSum(t - w + 1, t) * Den(sma)
            /\ (w = 3 /\ Col("close") = CloseSample) =>
                  /\ IsNaN(Col("sma_3")[1])
                  /\ IsNaN(Col("sma_3")[2])
                  /\ Col("sma_3")[3] = F(101)

\* calculate_sma(df, 3) has returned on the self-test's closes.
C12_Witness ==
    /\ JustReturned("calculate_sma")
    /\ call.args = <<3>>
    /\ Col("close") = CloseSample
    /\ Col("sma_3")[3] = F(101)
    /\ Col("sma_3")[5] = F(103)

\* C13: the column calculate_ema(window=w) assigns holds close[0] at index
\* 0 and at every later index t the value
\* (close[t] - ema[t-1]) * 2/(w+1) + ema[t-1], so that it is defined at
\* every index.
C13_EmaRecurrence ==
    \A w \in EmaWindows :
        HasCols(df, {"close", EmaColumn(w)}) =>
            LET ema == Col(EmaColumn(w))
                close == Col("close")
                mult == Q(2, w + 1)
            IN  \A t \in Rows :
                    /\ Defined(ema[t])
                    /\ t = 1 => ema[t] = close[t]
                    /\ t > 1 =>
                          ema[t] = Plus(Times(Minus(close[t], ema[t - 1]), mult),
                                        ema[t - 1])

\* calculate_ema(df, 20) has returned on the self-test's closes: 100, then
\* 100 + 2 * 2/21 = 2104/21.
C13_Witness ==
    /\ JustReturned("calculate_ema")
    /\ call.args = <<20>>
    /\ Col("close") = CloseSample
    /\ Col("ema_20")[1] = F(100)
    /\ Col("ema_20")[2] = Q(2104, 21)

\* The rolling mean loss of window w is above zero at position t: the
\* window is full and holds a day on which the close fell.
LossAboveZero(t, w) ==
    /\ t >= w
    /\ \E i \in (t - w + 1)..t :
          i > 1 /\ Lt(Col("close")[i], Col("close")[i - 1])

\* C14: when calculate_rsi has returned, at every index where the rolling
\* mean loss of its window is above zero the rsi cell is a number between 0
\* and 100.
C14_RsiRange ==
    JustReturned("calculate_rsi") =>
        \A t \in Rows :
            LossAboveZero(t, RsiWindow(call.args)) =>
                /\ Defined(Col("rsi")[t])
                /\ Ge(Col("rsi")[t], F(0))
                /\ Le(Col("rsi")[t], F(100))

\* calculate_rsi(df, 2) has returned and the third row, after a gain of 1
\* and a loss of 3, holds 25.
C14_Witness ==
    /\ JustReturned("calculate_rsi")
    /\ call.args = <<2>>
    /\ df.rows >= 3
    /\ LossAboveZero(3, 2)
    /\ Col("rsi")[3] = F(25)

\* The columns each indicator function reads from the table it is given.
IndicatorInput(fn) ==
    IF fn = "calculate_stochastic_oscillator"
    THEN {"low", "high", "close"}
    ELSE {"close"}

\* The indicator columns each strategy function reads.
StrategyInput(fn, args) ==
    CASE fn = "sma_crossover_strategy" ->
             {SmaColumn(SmaParams(args)[1]), SmaColumn(SmaParams(args)[2])}
      [] fn = "rsi_strategy" -> {"rsi"}
      [] fn = "macd_crossover_strategy" -> {"macd", "macd_signal"}
      [] fn = "bollinger_bands_strategy" -> {"close", "lower_band", "upper_band"}
      [] fn = "stochastic_oscillator_strategy" -> {"%K", "%D"}

IndicatorFunctions ==
    {"calculate_sma", "calculate_ema", "calculate_rsi", "calculate_macd",
     "calculate_bollinger_bands", "calculate_stochastic_oscillator"}

StrategyFunctions ==
    {"sma_crossover_strategy", "rsi_strategy", "macd_crossover_strategy",
     "bollinger_bands_strategy", "stochastic_oscillator_strategy"}

\* The columns the function of the call reads.
InputColumns(c) ==
    IF c.fn \in IndicatorFunctions
    THEN IndicatorInput(c.fn)
    ELSE StrategyInput(c.fn, c.args)

\* C15: a call of an indicator function on a table without one of its
\* input columns (close; low, high and close for the stochastic
\* oscillator) and a call of a strategy function on a table without one of
\* its indicator columns ends in the exception raised to the caller, not in
\* a normal return.
C15_MissingColumnRaises ==
    [][(/\ call'.fn \in IndicatorFunctions \cup StrategyFunctions
        /\ ~HasCols(df, InputColumns(call')))
           => call'.raised = "KeyError"]_vars

\* calculate_stochastic_oscillator has raised on a table of lows and highs
\* without the close column.
C15_Witness ==
    /\ call.fn = "calculate_stochastic_oscillator"
    /\ call.raised = "KeyError"
    /\ HasCols(df, {"low", "high", "lowest_low", "highest_high"})
    /\ ~HasCols(df, {"close"})
    /\ ~HasCols(df, {"%K"})

\* update_graph has run with an API key.
GraphRun == call.fn = "update_graph" /\ env.api_key # ""

\* C16: when the price provider answers with the empty table (no rows, no
\* columns), update_graph and the indicator and strategy functions it
\* calls complete without raising.
C16_EmptySeriesCompletes ==
    (GraphRun /\ env.data = EmptyFrame) => call.raised = "none"

\* C17: a returning call of an indicator or strategy function leaves the
\* table the caller passed in with the columns and values it had before
\* the call.
C17_CallerTableUnchanged ==
    [][(/\ call'.fn \in IndicatorFunctions \cup StrategyFunctions
        /\ call'.raised = "none")
           => df' = df]_vars

\* C18: for every non-empty answer of the provider with open, high, low and
\* close, update_graph hands plot_stock_data a table with every column the
\* plot reads, strong_buy_signal and strong_sell_signal among them, and
\* returns the figure.
C18_PlotGetsEveryColumn ==
    (GraphRun /\ env.data.rows > 0) =>
        /\ HasCols(df, PlotColumns)
        /\ call.raised = "none"
        /\ ret = Figure

\* The last two update_watchlist calls were an add and then a remove of
\* the same symbol.
AddThenRemove ==
    /\ Len(recent) = 2
    /\ recent[1].call.args[1] = "add-stock-button"
    /\ recent[2].call.args[1] = "remove-stock-button"
    /\ recent[1].call.args[2] # ""
    /\ Upper(recent[1].call.args[2]) = Upper(recent[2].call.args[2])

\* The watchlist, as read_watchlist reads it, holds what it held before
\* the add.
BackToPrior == ReadWatchlist(watchlist) = ReadWatchlist(recent[1].found)

\* C19: an update_watchlist add of a symbol followed by an update_watchlist
\* remove of the same symbol leaves the watchlist, as read_watchlist reads
\* it, equal to what it was before the add.  Stated for the prior
\* watchlists that do not hold the symbol: on one that holds it the add
\* writes nothing and the remove takes the symbol away.
C19_RoundTrip ==
    (/\ AddThenRemove
     /\ Upper(recent[1].call.args[2])
            \notin Elems(ReadWatchlist(recent[1].found)))
        => BackToPrior

\* C20: an add of a symbol the watchlist already holds leaves the file as
\* it was and answers that the symbol is already in the watchlist, with or
\* without an API key, whatever the provider answers.
C20_DuplicateAddSaysAlready ==
    (/\ recent # <<>>
     /\ call.args[1] = "add-stock-button"
     /\ call.args[2] # ""
     /\ Upper(call.args[2])
            \in Elems(ReadWatchlist(recent[Len(recent)].found)))
        => /\ watchlist = recent[Len(recent)].found
           /\ ret.feedback = <<Upper(call.args[2]), " is already in watchlist.">>

\* The file the last update_watchlist call found.
Found == recent[Len(recent)].found

\* C21: a remove of a symbol the watchlist does not hold writes nothing to
\* watchlist.txt, raises nothing, answers that the symbol was not found in
\* the watchlist, and shows the list that is stored.
C21_RemoveAbsentIsNoOp ==
    (/\ recent # <<>>
     /\ call.args[1] = "remove-stock-button"
     /\ call.args[2] # ""
     /\ Upper(call.args[2]) \notin Elems(ReadWatchlist(Found)))
        => /\ watchlist = Found
           /\ call.raised = "none"
           /\ ret.feedback = <<Upper(call.args[2]), " not found in watchlist.">>
           /\ ret.children = ReadWatchlist(watchlist)

\* MSFT removed from a watchlist.txt that holds AAPL alone.
C21_Witness ==
    /\ recent # <<>>
    /\ call.args = <<"remove-stock-button", "MSFT">>
    /\ Found = [exists |-> TRUE, lines |-> <<"AAPL">>]
    /\ watchlist = Found
    /\ ret.children = <<"AAPL">>
    /\ ret.feedback = <<"MSFT", " not found in watchlist.">>

\* No symbol twice in a list.
NoDuplicates(list) ==
    \A i, j \in 1..Len(list) : list[i] = list[j] => i = j

\* The last update_watchlist call was a click of the button on the symbol
\* s, typed in any case, with or without blanks around it.
Clicked(button_id, s) ==
    /\ call.args[1] = button_id
    /\ Strip(Upper(call.args[2])) = s

\* C26: an update_watchlist call that finds a watchlist.txt without a
\* symbol twice leaves one without a symbol twice, every symbol of it in
\* upper case; a symbol it did not find there is one whose add has just
\* passed validation (API key present, price data not empty), and the symbol
\* whose remove was just clicked is not in it.
C26_WatchlistIsSet ==
    (recent # <<>> /\ NoDuplicates(ReadWatchlist(Found)))
        => /\ NoDuplicates(ReadWatchlist(watchlist))
           /\ \A s \in Elems(ReadWatchlist(watchlist)) :
                 /\ Upper(s) = s
                 /\ \/ s \in Elems(ReadWatchlist(Found))
                    \/ /\ Clicked("add-stock-button", s)
                       /\ env.api_key # ""
                       /\ IsValidSymbol(env.data)
                 /\ ~Clicked("remove-stock-button", s)

\* C25: on no date does a strategy give its buy signal and its sell signal
\* together, whatever overbought and oversold levels rsi_strategy and
\* stochastic_oscillator_strategy were called with; for
\* bollinger_bands_strategy on the dates where lower_band <= upper_band.
C25_BuySellExclusive ==
    \A s \in Strategies :
        HasCols(df, {BuyColumn(s), SellColumn(s)}) =>
            \A t \in Rows :
                (s = "bb" => Le(Col("lower_band")[t], Col("upper_band")[t]))
                    => ~(Col(BuyColumn(s))[t] /\ Col(SellColumn(s))[t])

\* rsi_strategy(df, 30, 70), the overbought level below the oversold one:
\* the RSI falls from 75 to 70, which is at or below the oversold level
\* and at or above the overbought level; the buy signal alone is true.
C25_Witness ==
    /\ JustReturned("rsi_strategy")
    /\ call.args = <<30, 70>>
    /\ df.rows >= 2
    /\ Col("rsi")[1] = F(75)
    /\ Col("rsi")[2] = F(70)
    /\ Col("rsi_buy_signal")[2]
    /\ ~Col("rsi_sell_signal")[2]

\* get_daily_data has run; what its last call found and was answered.
Fetched == market.last.fn = "get_daily_data"

\* Alpha Vantage failed: an HTTP error, a JSON body, or a text that does
\* not parse into a table indexed by timestamp.
AlphaVantageFailed ==
    \/ market.last.av.kind # "text"
    \/ "timestamp" \notin market.last.av.columns
    \/ ~market.last.av.dates

\* yfinance was of no help: an exception or no rows.
YFinanceFailed ==
    \/ market.last.yf.kind = "error"
    \/ market.last.yf.kind = "table" /\ market.last.yf.rows = 0

\* C22: a get_daily_data call that is not answered from a fresh cache file
\* asks Alpha Vantage first; whenever Alpha Vantage fails or returns no
\* rows it asks yfinance next; it returns the table of the first provider
\* that delivered one, indexed by timestamp, and the empty table when both
\* failed.
C22_FallbackChain ==
    (Fetched /\ market.asked # <<>>) =>
        /\ market.asked[1] = "alphavantage"
        /\ IF AlphaVantageFailed \/ market.last.av.rows = 0
           THEN /\ market.asked = <<"alphavantage", "yfinance">>
                /\ IF YFinanceFailed
                   THEN market.result.rows = 0
                   ELSE /\ market.result.rows = market.last.yf.rows
                        /\ market.result.index = "timestamp"
           ELSE /\ market.asked = <<"alphavantage">>
                /\ market.result.rows = market.last.av.rows
                /\ market.result.index = "timestamp"

\* The file the last call found can be returned: it parses, with a
\* timestamp column to index by, and holds a close column.
CacheUsable ==
    /\ market.last.found.exists
    /\ market.last.found.csv
    /\ {"timestamp", "close"} \subseteq market.last.found.columns

\* C23: a cache file younger than 24 hours that can be read and holds a
\* close column is returned and no provider is contacted; a cache file of
\* 24 hours or more, or one that cannot be read or lacks close, is not
\* returned: Alpha Vantage is asked, and when both providers fail the
\* result is the empty table, not the file.
C23_CacheRevalidation ==
    Fetched =>
        IF CacheUsable /\ market.last.found.age < CacheTtlHours
        THEN /\ market.asked = <<>>
             /\ market.last.av.kind = "none"
             /\ market.result.rows = market.last.found.rows
             /\ market.result.columns = market.last.found.columns \ {"timestamp"}
             /\ market.cache = market.last.found
        ELSE /\ market.asked # <<>>
             /\ market.last.av.kind # "none"
             /\ (AlphaVantageFailed /\ YFinanceFailed) => market.result.rows = 0

\* A readable file of exactly 24 hours with a row and a close column is
\* passed over: both providers are asked, both fail, the empty table is
\* returned and the file stays as it was.
C23_Witness ==
    /\ Fetched
    /\ CacheUsable
    /\ market.last.found.age = 24
    /\ market.last.found.rows = 1
    /\ market.asked = <<"alphavantage", "yfinance">>
    /\ market.result.rows = 0
    /\ market.cache = market.last.found

\* C28: a table get_daily_data returns with rows in it has a close
\* column, on every path, and a call that writes the cache file writes a
\* table with rows and a close column.
C28_CloseColumn ==
    Fetched =>
        /\ (market.result.rows > 0 /\ market.result.columns # {})
               => "close" \in market.result.columns
        /\ market.cache # market.last.found
               => market.cache.rows > 0 /\ "close" \in market.cache.columns

\* A brokerage call has run (get_long_term_holdings runs get_trade_history
\* inside).
Traded == broker.last.fn \in {"get_trade_history", "get_long_term_holdings"}

\* The transactions a trade_history.json holds.
CachedTransactions(file) == IF file.exists THEN file.transactions ELSE <<>>

\* C24: get_long_term_holdings returns a mapping from symbol to quantity
\* in which every symbol with a TRADE buy of more than one year ago in the
\* trade history and a positive current position appears with a positive
\* quantity.
C24_LongTermHoldings ==
    (broker.last.fn = "get_long_term_holdings" /\ broker.last.raised = "none")
        => \A i \in 1..Len(broker.last.transactions) :
               LET t == broker.last.transactions[i]
               IN  (/\ t.type = "TRADE"
                    /\ t.net_amount < 0
                    /\ t.trade_date # <<>>
                    /\ t.trade_date[1] < broker.today - YearDays
                    /\ \E k \in 1..Len(broker.last.args[1]) :
                          /\ broker.last.args[1][k].symbol = t.symbol
                          /\ broker.last.args[1][k].quantity > 0)
                       => /\ broker.last.result # "None"
                          /\ t.symbol \in DOMAIN broker.last.result
                          /\ broker.last.result[t.symbol] > 0

\* The key get_trade_history tells transactions apart by.
TransactionId(t) == <<t.account_id, t.trade_date, t.symbol, t.quantity>>

\* C29: a get_trade_history call that reaches the cache write leaves
\* every transaction in trade_history.json that was there, and adds of the
\* fetched ones one entry for each (account_id, trade_date, symbol,
\* quantity) that was not cached; so a call that fetches what the call
\* before it fetched leaves the set of cached transactions as it found it.
C29_CacheIdempotent ==
    (Traded /\ broker.last.wrote) =>
        LET found == CachedTransactions(broker.last.found)
            now == CachedTransactions(broker.cache)
            fetched == broker.last.fetched
            CountOf(list, P(_)) == Cardinality({i \in 1..Len(list) : P(list[i])})
        IN  /\ \A i \in 1..Len(found) :
                  CountOf(now, LAMBDA t : t = found[i])
                      >= CountOf(found, LAMBDA t : t = found[i])
            /\ \A i \in 1..Len(fetched) :
                  CountOf(now, LAMBDA t : TransactionId(t) = TransactionId(fetched[i]))
                      = IF \E k \in 1..Len(found) :
                              TransactionId(found[k]) = TransactionId(fetched[i])
                        THEN CountOf(found,
                                 LAMBDA t : TransactionId(t) = TransactionId(fetched[i]))
                        ELSE 1
            /\ Len(now) <= Len(found) + Len(fetched)
            /\ (broker.prev.wrote /\ broker.prev.fetched = fetched)
                   => {now[i] : i \in 1..Len(now)} = {found[i] : i \in 1..Len(found)}

\* The second of two calls that both fetched the same two transactions, one
\* key between them: the cache holds one transaction, as after the first.
C29_Witness ==
    /\ broker.last.fn = "get_trade_history"
    /\ broker.last.wrote
    /\ broker.prev.wrote
    /\ Len(broker.last.fetched) = 2
    /\ broker.prev.fetched = broker.last.fetched
    /\ broker.last.fetched[1] # broker.last.fetched[2]
    /\ Len(CachedTransactions(broker.last.found)) = 1
    /\ CachedTransactions(broker.cache) = CachedTransactions(broker.last.found)

\* The start date lines 166-172 compute for the account: the day after its
\* latest cached transaction, else the start_date argument, else a year ago.
ComputedStart(a) ==
    LET dates == {t.trade_date[1] :
                     t \in {x \in {CachedTransactions(broker.last.found)[i] :
                                      i \in 1..Len(CachedTransactions(broker.last.found))} :
                               x.account_id = a /\ x.trade_date # <<>>}}
    IN  IF dates # {} THEN 1 + CHOOSE d \in dates : \A e \in dates : e <= d
        ELSE IF broker.last.fn = "get_trade_history" /\ broker.last.args[1] # <<>>
        THEN broker.last.args[1][1]
        ELSE broker.today - YearDays

ComputedEnd ==
    IF broker.last.fn = "get_trade_history" /\ broker.last.args[2] # <<>>
    THEN broker.last.args[2][1]
    ELSE broker.today

\* C30: every get_transactions request of get_trade_history has
\* start_date <= end_date and spans at most 365 days, whatever the cache
\* and the start_date and end_date arguments are, and no request goes out
\* for an account whose computed start date is after the end date.
C30_RequestRanges ==
    Traded =>
        /\ \A i \in 1..Len(broker.last.requests) :
              /\ broker.last.requests[i].start_date <= broker.last.requests[i].end_date
              /\ broker.last.requests[i].end_date
                     - broker.last.requests[i].start_date <= YearDays
        /\ \A a \in {"A", "B"} :
              ComputedStart(a) > ComputedEnd
                  => \A i \in 1..Len(broker.last.requests) :
                         broker.last.requests[i].account # a

\* get_trade_history(start_date = 366 days ago) with today's sale cached
\* for account A and nothing for B: no request for A, whose start is
\* tomorrow, and one for B cut to the last 365 days.
C30_Witness ==
    /\ broker.last.fn = "get_trade_history"
    /\ broker.last.args = <<<<broker.today - YearDays - 1>>, <<>>, "">>
    /\ ComputedStart("A") = broker.today + 1
    /\ broker.last.requests =
           <<[account |-> "B", start_date |-> broker.today - YearDays,
              end_date |-> broker.today]>>

\* Both running callbacks have returned.
BothReturned ==
    /\ Len(clicks) = 2
    /\ \A i \in 1..2 : clicks[i].at = "returned"

\* C27: when two update_watchlist callbacks that add two different valid
\* symbols interleave their read_watchlist and write_watchlist steps in
\* any order, both symbols are in watchlist.txt once both have returned.
C27_NoLostUpdate ==
    (/\ BothReturned
     /\ \A i \in 1..2 : /\ clicks[i].args[1] = "add-stock-button"
                        /\ clicks[i].args[2] # ""
     /\ Upper(clicks[1].args[2]) # Upper(clicks[2].args[2])
     /\ env.api_key # ""
     /\ IsValidSymbol(env.data))
        => \A i \in 1..2 :
              Upper(clicks[i].args[2]) \in Elems(ReadWatchlist(watchlist))
====
